---- MODULE Spec2Model ----
(***************************************************************************)
(* A model of the R-Cube-Solver core: the sticker-level cube               *)
(* (src/js/cube/CubeState.js) and the layer-by-layer solver with its       *)
(* validation pipeline and move optimizer (src/js/solver/Solver.js).       *)
(*                                                                         *)
(* JavaScript arrays are functions over 0..n-1, objects are records or     *)
(* functions over their keys, and strings are TLA+ strings read with Len,  *)
(* SubSeq and \o, so that a move token such as "R'" is parsed the way the  *)
(* code parses it.                                                         *)
(***************************************************************************)
EXTENDS Integers, Sequences, FiniteSets, TLC

VARIABLES
    cube,       \* the CubeState object: [state, moveHistory]
    solver,     \* the Solver object's mutable fields: [state, solution, phases]
    call,       \* the most recent call: [op, arg, before], before the cube as it found it
    ret,        \* the outcome of that call: what it returned, or what it threw
    moves,      \* the move list a caller holds for Solver.optimizeMoves
    optimized,  \* what optimizeMoves returned for it
    paint,      \* the paintState object of solve's caller, as the call left it
    newCube,    \* the cube clone() returned, once it is made
    renderer,   \* the CubeRenderer object's paint fields: [paintState, selectedColor, paintMode]
    controls,   \* the Controls object's fields: [userMoveHistory, redoStack]
    cc,         \* a CubieCube: [cp, co, ep, eo]
    kociemba,   \* the KociembaSolver object's search fields
    app,        \* the RubiksCubeApp object's fields
    handlers    \* the async handlers that have started and not finished

vars == <<cube, solver, call, ret, moves, optimized, paint, newCube, renderer, controls,
         cc, kociemba, app, handlers>>

(***************************************************************************)
(* Bounds of the model.                                                    *)
(***************************************************************************)
\* the calls on the cube start from move histories this long at most
MaxMoves == 2
\* the solver is called on cubes this many moves from the solved cube at most
MaxSolveMoves == 1
\* the most repetitions of R U R' U' in one move string
MaxRepeats == 6
\* the longest move list handed to optimizeMoves
MaxLen == 3
\* the most moves of one scramble
MaxScramble == 2
\* the most draws of a face that one scramble rejects
MaxRedraws == 1
\* the play controls run while the cube's own history is shorter than this
MaxHandlers == 4
\* the longest permutation calculateParity is called on
MaxPerm == 8
\* the most CubieCube.multiply calls made on one cubie
MaxTurns == 2
\* the deepest iteration of phase1Search that is followed
MaxDepth == 2
\* the most paints of a sticker that is painted already, between two resets
MaxRepaints == 1

(***************************************************************************)
(* JavaScript values and built-ins used by the code.                       *)
(***************************************************************************)
Undefined == "undefined"
Null == "null"

\* e, with v computed first. (TLC computes the argument of an operator where
\* the operator first reads it; a loop that hands its result to the next round
\* computes it first, as the code does.)
Strict(v, e) == IF v = v THEN e ELSE e

\* an array literal [a, b, c]
Arr(seq) == [i \in 0 .. (Len(seq) - 1) |-> seq[i + 1]] @@ <<>>

\* arr.length, arr.push(x) and arr.pop()
length(arr) == Cardinality(DOMAIN arr)
push(arr, x) == arr @@ (length(arr) :> x)
pop(arr) == [i \in 0 .. (length(arr) - 2) |-> arr[i]] @@ <<>>

\* arr.slice(start)
slice(arr, start) == [i \in 0 .. (length(arr) - start - 1) |-> arr[start + i]] @@ <<>>

\* str.charAt(i)
charAt(str, i) == IF i < Len(str) THEN SubSeq(str, i + 1, i + 1) ELSE ""

\* str[i]
at(str, i) == IF i < Len(str) THEN SubSeq(str, i + 1, i + 1) ELSE Undefined

\* str.includes(ch) for a one-character ch
includes(str, ch) == \E i \in 1 .. Len(str) : SubSeq(str, i, i) = ch

\* str.replace(ch, "") for a one-character ch: the first occurrence only
replace(str, ch) ==
    IF ~includes(str, ch) THEN str
    ELSE LET i == CHOOSE k \in 1 .. Len(str) :
                      /\ SubSeq(str, k, k) = ch
                      /\ \A j \in 1 .. (k - 1) : SubSeq(str, j, j) # ch
         IN  SubSeq(str, 1, i - 1) \o SubSeq(str, i + 1, Len(str))

\* ch.toUpperCase() for the face letters
toUpperCase(ch) ==
    CASE ch = "r" -> "R" [] ch = "l" -> "L" [] ch = "u" -> "U"
      [] ch = "d" -> "D" [] ch = "f" -> "F" [] ch = "b" -> "B"
      [] OTHER -> ch

\* str.split(/\s+/).filter(m => m): the words of a move string, in order
split(str) ==
    LET n == Len(str)
        isSpace(i) == SubSeq(str, i, i) = " "
        starts == {i \in 1 .. n : ~isSpace(i) /\ (i = 1 \/ isSpace(i - 1))}
        start(k) == CHOOSE s \in starts : Cardinality({t \in starts : t < s}) = k
        end(s) == CHOOSE e \in s .. n :
                      /\ \A j \in s .. e : ~isSpace(j)
                      /\ (e = n \/ isSpace(e + 1))
    IN  [k \in 0 .. (Cardinality(starts) - 1) |->
            SubSeq(str, start(k), end(start(k)))] @@ <<>>

(***************************************************************************)
(* CubeState                                                               *)
(***************************************************************************)
\* the keys of CubeState.state, in the order reset() creates them
CubeFaces == <<"U", "D", "F", "B", "L", "R">>

Face9(c) == [i \in 0 .. 8 |-> c]

reset ==
    [state |-> [U |-> Face9("W"), D |-> Face9("Y"), F |-> Face9("G"),
                B |-> Face9("B"), L |-> Face9("O"), R |-> Face9("R")],
     moveHistory |-> Arr(<<>>)]

rotateFaceCW(s, face) ==
    LET temp == s[face]
    IN  [s EXCEPT ![face] = Arr(<<temp[6], temp[3], temp[0],
                                  temp[7], temp[4], temp[1],
                                  temp[8], temp[5], temp[2]>>)]

rotateFaceCCW(s, face) ==
    LET temp == s[face]
    IN  [s EXCEPT ![face] = Arr(<<temp[2], temp[5], temp[8],
                                  temp[1], temp[4], temp[7],
                                  temp[0], temp[3], temp[6]>>)]

\* The six face turns. Each reads only stickers it has not yet overwritten, so
\* its sequence of assignments is one simultaneous update of the rotated face r.
R(s, prime) ==
  IF prime
  THEN LET r == rotateFaceCCW(s, "R")
           temp == Arr(<<r.U[2], r.U[5], r.U[8]>>)
       IN  [r EXCEPT !.U[2] = r.F[2], !.U[5] = r.F[5], !.U[8] = r.F[8],
                     !.F[2] = r.D[2], !.F[5] = r.D[5], !.F[8] = r.D[8],
                     !.D[2] = r.B[6], !.D[5] = r.B[3], !.D[8] = r.B[0],
                     !.B[0] = temp[2], !.B[3] = temp[1], !.B[6] = temp[0]]
  ELSE LET r == rotateFaceCW(s, "R")
           temp == Arr(<<r.U[2], r.U[5], r.U[8]>>)
       IN  [r EXCEPT !.U[2] = r.B[6], !.U[5] = r.B[3], !.U[8] = r.B[0],
                     !.B[0] = r.D[8], !.B[3] = r.D[5], !.B[6] = r.D[2],
                     !.D[2] = r.F[2], !.D[5] = r.F[5], !.D[8] = r.F[8],
                     !.F[2] = temp[0], !.F[5] = temp[1], !.F[8] = temp[2]]

L(s, prime) ==
  IF prime
  THEN LET r == rotateFaceCCW(s, "L")
           temp == Arr(<<r.U[0], r.U[3], r.U[6]>>)
       IN  [r EXCEPT !.U[0] = r.B[8], !.U[3] = r.B[5], !.U[6] = r.B[2],
                     !.B[2] = r.D[6], !.B[5] = r.D[3], !.B[8] = r.D[0],
                     !.D[0] = r.F[0], !.D[3] = r.F[3], !.D[6] = r.F[6],
                     !.F[0] = temp[0], !.F[3] = temp[1], !.F[6] = temp[2]]
  ELSE LET r == rotateFaceCW(s, "L")
           temp == Arr(<<r.U[0], r.U[3], r.U[6]>>)
       IN  [r EXCEPT !.U[0] = r.F[0], !.U[3] = r.F[3], !.U[6] = r.F[6],
                     !.F[0] = r.D[0], !.F[3] = r.D[3], !.F[6] = r.D[6],
                     !.D[0] = r.B[8], !.D[3] = r.B[5], !.D[6] = r.B[2],
                     !.B[2] = temp[2], !.B[5] = temp[1], !.B[8] = temp[0]]

U(s, prime) ==
  IF prime
  THEN LET r == rotateFaceCCW(s, "U")
           temp == Arr(<<r.F[0], r.F[1], r.F[2]>>)
       IN  [r EXCEPT !.F[0] = r.R[0], !.F[1] = r.R[1], !.F[2] = r.R[2],
                     !.R[0] = r.B[0], !.R[1] = r.B[1], !.R[2] = r.B[2],
                     !.B[0] = r.L[0], !.B[1] = r.L[1], !.B[2] = r.L[2],
                     !.L[0] = temp[0], !.L[1] = temp[1], !.L[2] = temp[2]]
  ELSE LET r == rotateFaceCW(s, "U")
           temp == Arr(<<r.F[0], r.F[1], r.F[2]>>)
       IN  [r EXCEPT !.F[0] = r.L[0], !.F[1] = r.L[1], !.F[2] = r.L[2],
                     !.L[0] = r.B[0], !.L[1] = r.B[1], !.L[2] = r.B[2],
                     !.B[0] = r.R[0], !.B[1] = r.R[1], !.B[2] = r.R[2],
                     !.R[0] = temp[0], !.R[1] = temp[1], !.R[2] = temp[2]]

\* D with the saved F strip read after F has been overwritten
DReadingFAfterOverwrite(s, prime) ==
  IF prime
  THEN LET r == rotateFaceCCW(s, "D")
       IN  [r EXCEPT !.F[6] = r.L[6], !.F[7] = r.L[7], !.F[8] = r.L[8],
                     !.L[6] = r.B[6], !.L[7] = r.B[7], !.L[8] = r.B[8],
                     !.B[6] = r.R[6], !.B[7] = r.R[7], !.B[8] = r.R[8],
                     !.R[6] = r.L[6], !.R[7] = r.L[7], !.R[8] = r.L[8]]
  ELSE LET r == rotateFaceCW(s, "D")
       IN  [r EXCEPT !.F[6] = r.R[6], !.F[7] = r.R[7], !.F[8] = r.R[8],
                     !.R[6] = r.B[6], !.R[7] = r.B[7], !.R[8] = r.B[8],
                     !.B[6] = r.L[6], !.B[7] = r.L[7], !.B[8] = r.L[8],
                     !.L[6] = r.R[6], !.L[7] = r.R[7], !.L[8] = r.R[8]]

D(s, prime) ==
  IF prime
  THEN LET r == rotateFaceCCW(s, "D")
           temp == Arr(<<r.F[6], r.F[7], r.F[8]>>)
       IN  [r EXCEPT !.F[6] = r.L[6], !.F[7] = r.L[7], !.F[8] = r.L[8],
                     !.L[6] = r.B[6], !.L[7] = r.B[7], !.L[8] = r.B[8],
                     !.B[6] = r.R[6], !.B[7] = r.R[7], !.B[8] = r.R[8],
                     !.R[6] = temp[0], !.R[7] = temp[1], !.R[8] = temp[2]]
  ELSE LET r == rotateFaceCW(s, "D")
           temp == Arr(<<r.F[6], r.F[7], r.F[8]>>)
       IN  [r EXCEPT !.F[6] = r.R[6], !.F[7] = r.R[7], !.F[8] = r.R[8],
                     !.R[6] = r.B[6], !.R[7] = r.B[7], !.R[8] = r.B[8],
                     !.B[6] = r.L[6], !.B[7] = r.L[7], !.B[8] = r.L[8],
                     !.L[6] = temp[0], !.L[7] = temp[1], !.L[8] = temp[2]]

F(s, prime) ==
  IF prime
  THEN LET r == rotateFaceCCW(s, "F")
           temp == Arr(<<r.U[6], r.U[7], r.U[8]>>)
       IN  [r EXCEPT !.U[6] = r.R[0], !.U[7] = r.R[3], !.U[8] = r.R[6],
                     !.R[0] = r.D[2], !.R[3] = r.D[1], !.R[6] = r.D[0],
                     !.D[0] = r.L[2], !.D[1] = r.L[5], !.D[2] = r.L[8],
                     !.L[2] = temp[0], !.L[5] = temp[1], !.L[8] = temp[2]]
  ELSE LET r == rotateFaceCW(s, "F")
           temp == Arr(<<r.U[6], r.U[7], r.U[8]>>)
       IN  [r EXCEPT !.U[6] = r.L[8], !.U[7] = r.L[5], !.U[8] = r.L[2],
                     !.L[2] = r.D[0], !.L[5] = r.D[1], !.L[8] = r.D[2],
                     !.D[0] = r.R[6], !.D[1] = r.R[3], !.D[2] = r.R[0],
                     !.R[0] = temp[2], !.R[3] = temp[1], !.R[6] = temp[0]]

B(s, prime) ==
  IF prime
  THEN LET r == rotateFaceCCW(s, "B")
           temp == Arr(<<r.U[0], r.U[1], r.U[2]>>)
       IN  [r EXCEPT !.U[0] = r.L[6], !.U[1] = r.L[3], !.U[2] = r.L[0],
                     !.L[0] = r.D[6], !.L[3] = r.D[7], !.L[6] = r.D[8],
                     !.D[6] = r.R[8], !.D[7] = r.R[5], !.D[8] = r.R[2],
                     !.R[2] = temp[0], !.R[5] = temp[1], !.R[8] = temp[2]]
  ELSE LET r == rotateFaceCW(s, "B")
           temp == Arr(<<r.U[0], r.U[1], r.U[2]>>)
       IN  [r EXCEPT !.U[0] = r.R[2], !.U[1] = r.R[5], !.U[2] = r.R[8],
                     !.R[2] = r.D[8], !.R[5] = r.D[7], !.R[8] = r.D[6],
                     !.D[6] = r.L[0], !.D[7] = r.L[3], !.D[8] = r.L[6],
                     !.L[0] = temp[2], !.L[3] = temp[1], !.L[6] = temp[0]]


\* the switch of applyMove's execute(): a face letter other than the six does nothing
execute(s, face, prime) ==
    CASE face = "R" -> R(s, prime)
      [] face = "L" -> L(s, prime)
      [] face = "U" -> U(s, prime)
      [] face = "D" -> D(s, prime)
      [] face = "F" -> F(s, prime)
      [] face = "B" -> B(s, prime)
      [] OTHER -> s

\* a variant of applyMove that takes a reverse turn for a clockwise one
applyMoveIgnoringPrime(c, move, addToHistory) ==
    LET face == toUpperCase(charAt(move, 0))
        double == includes(move, "2")
        once == execute(c.state, face, FALSE)
        done == IF double THEN execute(once, face, FALSE) ELSE once
    IN  [state |-> done,
         moveHistory |-> IF addToHistory THEN push(c.moveHistory, move)
                         ELSE c.moveHistory]

applyMove(c, move, addToHistory) ==
    LET face == toUpperCase(charAt(move, 0))
        prime == includes(move, "'")
        double == includes(move, "2")
        once == execute(c.state, face, prime)
        done == IF double THEN execute(once, face, prime) ELSE once
    IN  [state |-> done,
         moveHistory |-> IF addToHistory THEN push(c.moveHistory, move)
                         ELSE c.moveHistory]

\* moveList.forEach(move => this.applyMove(move, addToHistory)), for the moves
\* at indices from .. to - 1 in their order; the range is walked as two halves
RECURSIVE forEachApplyMove(_, _, _, _, _)
forEachApplyMove(c, moveList, from, to, addToHistory) ==
    IF from >= to THEN c
    ELSE IF to = from + 1 THEN applyMove(c, moveList[from], addToHistory)
    ELSE LET mid == (from + to) \div 2
             half == forEachApplyMove(c, moveList, from, mid, addToHistory)
         IN  Strict(half, forEachApplyMove(half, moveList, mid, to, addToHistory))

applyMoves(c, str, addToHistory) ==
    LET moveList == split(str)
    IN  forEachApplyMove(c, moveList, 0, length(moveList), addToHistory)

getInverseMove(move) ==
    IF includes(move, "'") THEN replace(move, "'")
    ELSE IF includes(move, "2") THEN move
    ELSE move \o "'"

\* undo() as the pair of the cube it leaves and the value it returns
undo(c) ==
    IF length(c.moveHistory) = 0 THEN [cube |-> c, ret |-> Null]
    ELSE LET lastMove == c.moveHistory[length(c.moveHistory) - 1]
             popped == [c EXCEPT !.moveHistory = pop(c.moveHistory)]
             inverse == getInverseMove(lastMove)
         IN  [cube |-> applyMove(popped, inverse, FALSE), ret |-> lastMove]

isSolved(s) ==
    \A k \in 1 .. Len(CubeFaces) :
        LET face == CubeFaces[k]
            color == s[face][4]
        IN  \A i \in DOMAIN s[face] : s[face][i] = color

\* the 18 move tokens: scramble()'s faces and modifiers
FaceLetters == <<"R", "L", "U", "D", "F", "B">>
modifiers == <<"", "'", "2">>
Moves == {FaceLetters[f] \o modifiers[m] : f \in 1 .. 6, m \in 1 .. 3}

\* arr.join(' ')
RECURSIVE joinFrom(_, _)
joinFrom(arr, i) ==
    IF i >= length(arr) THEN ""
    ELSE IF i = length(arr) - 1 THEN arr[i]
    ELSE arr[i] \o " " \o joinFrom(arr, i + 1)

join(arr) == joinFrom(arr, 0)

\* a variant of the do-while that keeps its first draw
drawFaceOnce(faceDraws, d, lastMove) == d

\* scramble's do-while: the place in faceDraws, from d on, of the first draw
\* that is not lastMove, and length(faceDraws) when no such draw is left
RECURSIVE drawFace(_, _, _)
drawFace(faceDraws, d, lastMove) ==
    IF d >= length(faceDraws) THEN d
    ELSE IF FaceLetters[faceDraws[d] + 1] # lastMove THEN d
    ELSE drawFace(faceDraws, d + 1, lastMove)

\* scramble(length), round i of the for loop. Math.floor(Math.random() * 6) is
\* read from faceDraws, from place d on, and Math.floor(Math.random() * 3) of
\* round i from modDraws[i]. It ends in the cube scramble leaves, the string
\* it returns and the number of face draws it took; with the draws used up
\* inside a do-while, the call has not returned.
RECURSIVE scrambleFor(_, _, _, _, _, _, _, _)
scrambleFor(c, len, i, lastMove, scrambleMoves, faceDraws, d, modDraws) ==
    IF i >= len
    THEN [returned |-> TRUE, cube |-> c, ret |-> join(scrambleMoves), drawn |-> d]
    ELSE LET place == drawFace(faceDraws, d, lastMove)
         IN  IF place >= length(faceDraws)
             THEN [returned |-> FALSE, cube |-> c, ret |-> Undefined, drawn |-> place]
             ELSE LET move == FaceLetters[faceDraws[place] + 1]
                      mod == modifiers[modDraws[i] + 1]
                      fullMove == move \o mod
                  IN  scrambleFor(applyMove(c, fullMove, TRUE), len, i + 1, move,
                                  push(scrambleMoves, fullMove), faceDraws, place + 1, modDraws)

scramble(c, len, faceDraws, modDraws) ==
    scrambleFor(c, len, 0, "", Arr(<<>>), faceDraws, 0, modDraws)

\* a variant of clone that hands its own moveHistory array to newCube
cloneSharingHistory(c) ==
    [made |-> TRUE, state |-> c.state, moveHistory |-> c.moveHistory,
     shared |-> {"moveHistory"}]

\* clone(): newCube, with the fields it has in common with this cube as objects
\* (none: state is copied through JSON and moveHistory by spreading)
clone(c) == [made |-> TRUE, state |-> c.state, moveHistory |-> c.moveHistory, shared |-> {}]

\* no clone made yet
noCube == [made |-> FALSE, state |-> Undefined, moveHistory |-> Undefined, shared |-> {}]

\* a cube after a method has changed another cube in place and left it as `is`:
\* the objects the two have in common show the same contents
inPlace(other, is) ==
    [other EXCEPT !.state = IF "state" \in other.shared THEN is.state ELSE @,
                  !.moveHistory = IF "moveHistory" \in other.shared
                                  THEN is.moveHistory ELSE @]

\* a cube after reset() has given another cube, or itself, a new state object
\* and a new moveHistory array: the two have no object in common any more
afterReset(other) == [other EXCEPT !.shared = {}]

\* CubeState.getColorCounts()[color], and isValid()
stateColorCounts(s, color) ==
    Cardinality({<<face, i>> \in (DOMAIN s) \X (0 .. 8) :
                    i \in DOMAIN s[face] /\ s[face][i] = color})

isValid(s) == \A color \in {"W", "Y", "R", "O", "B", "G"} : stateColorCounts(s, color) = 9

\* CubeState.getEdges() and getCorners(): the sticker places of each slot
getEdges(s) ==
    Arr(<<Arr(<<s.U[1], s.B[1]>>), Arr(<<s.U[3], s.L[1]>>), Arr(<<s.U[5], s.R[1]>>),
          Arr(<<s.U[7], s.F[1]>>), Arr(<<s.D[1], s.F[7]>>), Arr(<<s.D[3], s.L[7]>>),
          Arr(<<s.D[5], s.R[7]>>), Arr(<<s.D[7], s.B[7]>>), Arr(<<s.F[3], s.L[5]>>),
          Arr(<<s.F[5], s.R[3]>>), Arr(<<s.B[3], s.R[5]>>), Arr(<<s.B[5], s.L[3]>>)>>)

getCorners(s) ==
    Arr(<<Arr(<<s.U[0], s.L[0], s.B[2]>>), Arr(<<s.U[2], s.B[0], s.R[2]>>),
          Arr(<<s.U[6], s.F[0], s.L[2]>>), Arr(<<s.U[8], s.R[0], s.F[2]>>),
          Arr(<<s.D[0], s.L[8], s.F[6]>>), Arr(<<s.D[2], s.F[8], s.R[6]>>),
          Arr(<<s.D[6], s.B[8], s.L[6]>>), Arr(<<s.D[8], s.R[8], s.B[6]>>)>>)

\* arr.sort().join('') for an array of color letters: the letters in code
\* unit order, each as often as it occurs
ColorsInCodeUnitOrder == <<"B", "G", "O", "R", "W", "Y">>

occurrences(arr, c) == Cardinality({i \in DOMAIN arr : arr[i] = c})

RECURSIVE timesOf(_, _)
timesOf(c, n) == IF n = 0 THEN "" ELSE c \o timesOf(c, n - 1)

RECURSIVE sortJoinFrom(_, _)
sortJoinFrom(arr, k) ==
    IF k > Len(ColorsInCodeUnitOrder) THEN ""
    ELSE timesOf(ColorsInCodeUnitOrder[k], occurrences(arr, ColorsInCodeUnitOrder[k]))
             \o sortJoinFrom(arr, k + 1)

sortJoin(arr) == sortJoinFrom(arr, 1)

validEdges ==
    Arr(<<Arr(<<"W", "G">>), Arr(<<"W", "R">>), Arr(<<"W", "B">>), Arr(<<"W", "O">>),
          Arr(<<"Y", "G">>), Arr(<<"Y", "R">>), Arr(<<"Y", "B">>), Arr(<<"Y", "O">>),
          Arr(<<"G", "R">>), Arr(<<"G", "O">>), Arr(<<"B", "R">>), Arr(<<"B", "O">>)>>)

validCorners ==
    Arr(<<Arr(<<"W", "G", "R">>), Arr(<<"W", "R", "B">>), Arr(<<"W", "B", "O">>),
          Arr(<<"W", "O", "G">>), Arr(<<"Y", "G", "O">>), Arr(<<"Y", "O", "B">>),
          Arr(<<"Y", "B", "R">>), Arr(<<"Y", "R", "G">>)>>)

\* 0 when every slot shows the letters of some entry of the table, else 1
checkPieces(pieces, valid) ==
    IF \A i \in DOMAIN pieces :
           \E v \in DOMAIN valid : sortJoin(valid[v]) = sortJoin(pieces[i])
    THEN 0 ELSE 1

checkEdgeParity(s) == checkPieces(getEdges(s), validEdges)

checkCornerParity(s) == checkPieces(getCorners(s), validCorners)

expectedCenters == [U |-> "W", D |-> "Y", F |-> "G", B |-> "B", L |-> "O", R |-> "R"]

isSolvable(s) ==
    IF ~isValid(s) THEN FALSE
    ELSE IF \E face \in DOMAIN expectedCenters : s[face][4] # expectedCenters[face] THEN FALSE
    ELSE IF checkEdgeParity(s) # 0 THEN FALSE
    ELSE IF checkCornerParity(s) # 0 THEN FALSE
    ELSE TRUE

(***************************************************************************)
(* Solver: move optimization                                               *)
(***************************************************************************)
combineMoves(m1, m2) ==
    LET face == at(m1, 0)
        v1 == IF includes(m1, "'") THEN 3 ELSE IF includes(m1, "2") THEN 2 ELSE 1
        v2 == IF includes(m2, "'") THEN 3 ELSE IF includes(m2, "2") THEN 2 ELSE 1
        total == (v1 + v2) % 4
    IN  CASE total = 0 -> Null
          [] total = 1 -> face
          [] total = 2 -> face \o "2"
          [] total = 3 -> face \o "'"

\* the body of the for loop of optimizeMoves at loop = [i, result, changed],
\* with the i++ of the loop header; nothing once i has passed the last index
optimizeStep(current, loop) ==
    IF loop.i >= length(current) THEN loop
    ELSE IF loop.i = length(current) - 1
    THEN [loop EXCEPT !.i = loop.i + 1, !.result = push(loop.result, current[loop.i])]
    ELSE LET m1 == current[loop.i]
             m2 == current[loop.i + 1]
         IN  IF at(m1, 0) = at(m2, 0)
             THEN LET combined == combineMoves(m1, m2)
                  IN  [i |-> loop.i + 2,
                       result |-> IF combined # Null THEN push(loop.result, combined)
                                  ELSE loop.result,
                       changed |-> TRUE]
             ELSE [loop EXCEPT !.i = loop.i + 1, !.result = push(loop.result, m1)]

\* n iterations of the for loop, run as two halves
RECURSIVE optimizeSteps(_, _, _)
optimizeSteps(current, loop, n) ==
    IF n <= 1 THEN optimizeStep(current, loop)
    ELSE LET half == optimizeSteps(current, loop, n \div 2)
         IN  Strict(half, optimizeSteps(current, half, n - n \div 2))

\* one run of the for loop over current: at most current.length iterations
optimizePass(current) ==
    optimizeSteps(current, [i |-> 0, result |-> Arr(<<>>), changed |-> FALSE],
                  length(current))

\* a variant of the while loop that stops after its first pass
optimizeOnce(current, changed) ==
    IF ~changed THEN current ELSE optimizePass(current).result

\* while (changed) { ... }
RECURSIVE optimizeWhile(_, _)
optimizeWhile(current, changed) ==
    IF ~changed THEN current
    ELSE LET pass == optimizePass(current)
         IN  Strict(pass, optimizeWhile(pass.result, pass.changed))

optimizeMoves(moveList) == optimizeWhile(moveList, TRUE)

(***************************************************************************)
(* Solver: construction and the validation pipeline                        *)
(***************************************************************************)
\* typeof v === 'string' (undefined and null are the strings Undefined and Null)
isString(v) == Head(ToString(v)) = "\""

\* a === b for a sticker or letter a and any value b
strictEquals(a, b) == isString(a) /\ isString(b) /\ a = b

\* arr[i], undefined past the end of the array
Get(arr, i) == IF i \in DOMAIN arr THEN arr[i] ELSE Undefined

\* the outcome of a call: a returned value or a thrown exception
Return(v) == [throws |-> FALSE, message |-> "", value |-> v]
Throw(msg) == [throws |-> TRUE, message |-> msg, value |-> Undefined]

corners ==
    Arr(<<[facelets |-> Arr(<<8, 9, 20>>), faces |-> Arr(<<"U", "R", "F">>), name |-> "URF"],
          [facelets |-> Arr(<<6, 18, 38>>), faces |-> Arr(<<"U", "F", "L">>), name |-> "UFL"],
          [facelets |-> Arr(<<0, 36, 47>>), faces |-> Arr(<<"U", "L", "B">>), name |-> "ULB"],
          [facelets |-> Arr(<<2, 45, 11>>), faces |-> Arr(<<"U", "B", "R">>), name |-> "UBR"],
          [facelets |-> Arr(<<29, 15, 26>>), faces |-> Arr(<<"D", "R", "F">>), name |-> "DRF"],
          [facelets |-> Arr(<<27, 24, 44>>), faces |-> Arr(<<"D", "F", "L">>), name |-> "DFL"],
          [facelets |-> Arr(<<33, 42, 53>>), faces |-> Arr(<<"D", "L", "B">>), name |-> "DLB"],
          [facelets |-> Arr(<<35, 51, 17>>), faces |-> Arr(<<"D", "B", "R">>), name |-> "DBR"]>>)

edges ==
    Arr(<<[facelets |-> Arr(<<5, 10>>), faces |-> Arr(<<"U", "R">>), name |-> "UR"],
          [facelets |-> Arr(<<7, 19>>), faces |-> Arr(<<"U", "F">>), name |-> "UF"],
          [facelets |-> Arr(<<3, 37>>), faces |-> Arr(<<"U", "L">>), name |-> "UL"],
          [facelets |-> Arr(<<1, 46>>), faces |-> Arr(<<"U", "B">>), name |-> "UB"],
          [facelets |-> Arr(<<32, 16>>), faces |-> Arr(<<"D", "R">>), name |-> "DR"],
          [facelets |-> Arr(<<28, 25>>), faces |-> Arr(<<"D", "F">>), name |-> "DF"],
          [facelets |-> Arr(<<30, 43>>), faces |-> Arr(<<"D", "L">>), name |-> "DL"],
          [facelets |-> Arr(<<34, 52>>), faces |-> Arr(<<"D", "B">>), name |-> "DB"],
          [facelets |-> Arr(<<23, 12>>), faces |-> Arr(<<"F", "R">>), name |-> "FR"],
          [facelets |-> Arr(<<21, 41>>), faces |-> Arr(<<"F", "L">>), name |-> "FL"],
          [facelets |-> Arr(<<50, 39>>), faces |-> Arr(<<"B", "L">>), name |-> "BL"],
          [facelets |-> Arr(<<48, 14>>), faces |-> Arr(<<"B", "R">>), name |-> "BR"]>>)

faceOrder == Arr(<<"U", "R", "F", "D", "L", "B">>)

\* the Solver object as its constructor leaves it: this.state is not set
newSolver == [state |-> Undefined, solution |-> Arr(<<>>), phases |-> Arr(<<>>)]

getFaceName(faceCode) ==
    CASE faceCode = "U" -> "Up" [] faceCode = "D" -> "Down"
      [] faceCode = "F" -> "Front" [] faceCode = "B" -> "Back"
      [] faceCode = "L" -> "Left" [] faceCode = "R" -> "Right"
      [] OTHER -> faceCode

\* An object with string keys: its keys in insertion order and the value of each.
emptyObject == [keys |-> Arr(<<>>), val |-> <<>>]
hasKey(obj, k) == \E i \in DOMAIN obj.keys : obj.keys[i] = k
getKey(obj, k) == IF hasKey(obj, k) THEN obj.val[CHOOSE i \in DOMAIN obj.keys : obj.keys[i] = k]
                  ELSE Undefined
setKey(obj, k, v) ==
    IF hasKey(obj, k)
    THEN [obj EXCEPT !.val[CHOOSE i \in DOMAIN obj.keys : obj.keys[i] = k] = v]
    ELSE [keys |-> push(obj.keys, k), val |-> push(obj.val, v)]

\* validateState, step 1: the loop over the centers. It ends in a returned error,
\* a thrown TypeError (a face missing from paintState) or the centers object.
RECURSIVE centerLoop(_, _, _)
centerLoop(paintState, k, centers) ==
    IF k >= length(faceOrder) THEN [done |-> FALSE, centers |-> centers]
    ELSE LET face == faceOrder[k]
         IN  IF face \notin DOMAIN paintState
             THEN [done |-> TRUE,
                   out |-> Throw("Cannot read properties of undefined (reading '4')")]
             ELSE LET centerColor == Get(paintState[face], 4)
                  IN  IF hasKey(centers, centerColor)
                      THEN LET existingFace == getFaceName(getKey(centers, centerColor))
                               currentFace == getFaceName(face)
                           IN  [done |-> TRUE,
                                out |-> Return([valid |-> FALSE,
                                    error |-> "Duplicate center color '" \o centerColor
                                        \o "' on " \o existingFace \o " and " \o currentFace
                                        \o ". Centers must be unique."])]
                      ELSE centerLoop(paintState, k + 1, setKey(centers, centerColor, face))

\* every sticker of paintState in the order the counting loop visits them
RECURSIVE stickersFrom(_, _)
stickersFrom(paintState, k) ==
    IF k >= length(faceOrder) THEN <<>>
    ELSE LET face == paintState[faceOrder[k]]
         IN  [i \in 1 .. length(face) |-> face[i - 1]] \o stickersFrom(paintState, k + 1)

\* validateState, step 2: the first color in Object.entries(colorCounts) whose count is not 9
RECURSIVE countLoop(_, _, _)
countLoop(centers, stickers, k) ==
    IF k >= length(centers.keys) THEN Return([valid |-> TRUE, error |-> Undefined])
    ELSE LET color == centers.keys[k]
             count == Cardinality({i \in DOMAIN stickers : stickers[i] = color})
             faceName == getFaceName(getKey(centers, color))
         IN  IF count > 9
             THEN Return([valid |-> FALSE,
                      error |-> "Too many '" \o color \o "' stickers (" \o ToString(count)
                          \o "). Maximum is 9 (Center: " \o faceName \o ")."])
             ELSE IF count < 9
             THEN Return([valid |-> FALSE,
                      error |-> "Not enough '" \o color \o "' stickers (" \o ToString(count)
                          \o "). Need 9 (Center: " \o faceName \o ")."])
             ELSE countLoop(centers, stickers, k + 1)

validateState(paintState) ==
    LET c == centerLoop(paintState, 0, emptyObject)
    IN  IF c.done THEN c.out
        ELSE IF length(c.centers.keys) # 6
        THEN Return([valid |-> FALSE, error |-> "Must have 6 unique center colors."])
        ELSE LET stickers == stickersFrom(paintState, 0)
                 unknown == {i \in DOMAIN stickers : ~hasKey(c.centers, stickers[i])}
             IN  IF unknown # {}
                 THEN LET color == stickers[CHOOSE i \in unknown : \A j \in unknown : i <= j]
                      IN  Return([valid |-> FALSE,
                              error |-> "Sticker color '" \o color
                                  \o "' does not match any center."])
                 ELSE countLoop(c.centers, stickers, 0)

RECURSIVE mapColorsLoop(_, _, _)
mapColorsLoop(paintState, k, colorToFace) ==
    IF k >= length(faceOrder) THEN colorToFace
    ELSE LET face == faceOrder[k]
             centerColor == Get(paintState[face], 4)
         IN  mapColorsLoop(paintState, k + 1, setKey(colorToFace, centerColor, face))

mapColorsToFaces(paintState) == mapColorsLoop(paintState, 0, emptyObject)

\* a variant of toFaceletString that walks the faces in the order of the keys of
\* CubeState.state: U, D, F, B, L, R
toFaceletStringInKeyOrder(paintState, colorToFace) ==
    LET face(n) == CubeFaces[n \div 9 + 1]
        color(n) == Get(paintState[face(n)], n % 9)
        mappedFace(n) == getKey(colorToFace, color(n))
        unmapped == {n \in 0 .. (9 * Len(CubeFaces) - 1) : mappedFace(n) = Undefined}
        nine(k) == mappedFace(9 * k) \o mappedFace(9 * k + 1) \o mappedFace(9 * k + 2)
                   \o mappedFace(9 * k + 3) \o mappedFace(9 * k + 4) \o mappedFace(9 * k + 5)
                   \o mappedFace(9 * k + 6) \o mappedFace(9 * k + 7) \o mappedFace(9 * k + 8)
    IN  IF unmapped # {}
        THEN LET n == CHOOSE u \in unmapped : \A v \in unmapped : u <= v
             IN  Throw("Unknown color \"" \o color(n) \o "\" at " \o face(n)
                       \o "[" \o ToString(n % 9) \o "]")
        ELSE Return(nine(0) \o nine(1) \o nine(2) \o nine(3) \o nine(4) \o nine(5))

\* toFaceletString: n numbers the stickers in face order and index order. The
\* loop throws at the first sticker whose color maps to no face, and otherwise
\* returns the 54 mapped letters in that order.
toFaceletString(paintState, colorToFace) ==
    LET face(n) == faceOrder[n \div 9]
        color(n) == Get(paintState[face(n)], n % 9)
        mappedFace(n) == getKey(colorToFace, color(n))
        unmapped == {n \in 0 .. (9 * length(faceOrder) - 1) : mappedFace(n) = Undefined}
        nine(k) == mappedFace(9 * k) \o mappedFace(9 * k + 1) \o mappedFace(9 * k + 2)
                   \o mappedFace(9 * k + 3) \o mappedFace(9 * k + 4) \o mappedFace(9 * k + 5)
                   \o mappedFace(9 * k + 6) \o mappedFace(9 * k + 7) \o mappedFace(9 * k + 8)
    IN  IF unmapped # {}
        THEN LET n == CHOOSE u \in unmapped : \A v \in unmapped : u <= v
             IN  Throw("Unknown color \"" \o color(n) \o "\" at " \o face(n)
                       \o "[" \o ToString(n % 9) \o "]")
        ELSE Return(nine(0) \o nine(1) \o nine(2) \o nine(3) \o nine(4) \o nine(5))

findCorner(colors) ==
    LET stdCorners ==
            Arr(<<Arr(<<"U", "R", "F">>), Arr(<<"U", "F", "L">>),
                  Arr(<<"U", "L", "B">>), Arr(<<"U", "B", "R">>),
                  Arr(<<"D", "F", "R">>), Arr(<<"D", "L", "F">>),
                  Arr(<<"D", "B", "L">>), Arr(<<"D", "R", "B">>)>>)
        matches(i, o) ==
            /\ colors[0] = stdCorners[i][o]
            /\ colors[1] = stdCorners[i][(o + 1) % 3]
            /\ colors[2] = stdCorners[i][(o + 2) % 3]
        hits == {n \in 0 .. 23 : matches(n \div 3, n % 3)}
    IN  IF hits = {} THEN [index |-> -1, orientation |-> 0]
        ELSE LET n == CHOOSE h \in hits : \A g \in hits : h <= g
             IN  [index |-> n \div 3, orientation |-> n % 3]

getCornerName(index) ==
    LET names == Arr(<<"Top-Right-Front", "Top-Front-Left", "Top-Left-Back",
                       "Top-Back-Right", "Bottom-Right-Front", "Bottom-Front-Left",
                       "Bottom-Left-Back", "Bottom-Back-Right">>)
    IN  IF index \in DOMAIN names THEN names[index] ELSE "Corner " \o ToString(index)

getEdgeName(index) ==
    LET names == Arr(<<"Top-Right", "Top-Front", "Top-Left", "Top-Back",
                       "Bottom-Right", "Bottom-Front", "Bottom-Left", "Bottom-Back",
                       "Front-Right", "Front-Left", "Back-Left", "Back-Right">>)
    IN  IF index \in DOMAIN names THEN names[index] ELSE "Edge " \o ToString(index)

\* findEdge(colors): the first definition in the class body, which the second
\* one replaces before any call is made
findEdgeShadowed(colors) ==
    LET solvedEdges ==
            Arr(<<Arr(<<"U", "R">>), Arr(<<"U", "F">>), Arr(<<"U", "L">>), Arr(<<"U", "B">>),
                  Arr(<<"D", "R">>), Arr(<<"D", "F">>), Arr(<<"D", "L">>), Arr(<<"D", "B">>),
                  Arr(<<"F", "R">>), Arr(<<"F", "L">>), Arr(<<"B", "L">>), Arr(<<"B", "R">>)>>)
        hits == {i \in 0 .. 11 :
                    \/ colors[0] = solvedEdges[i][0] /\ colors[1] = solvedEdges[i][1]
                    \/ colors[0] = solvedEdges[i][1] /\ colors[1] = solvedEdges[i][0]}
        first == CHOOSE i \in hits : \A j \in hits : i <= j
    IN  IF hits = {} THEN [index |-> -1, orientation |-> 0]
        ELSE IF colors[0] = solvedEdges[first][0] /\ colors[1] = solvedEdges[first][1]
        THEN [index |-> first, orientation |-> 0]
        ELSE [index |-> first, orientation |-> 1]

\* what findEdge and the other locators return for "not found"
NoLoc == [null |-> TRUE]

\* findEdge(c1, c2): the class defines findEdge twice, and this second definition
\* (the layer solver's edge locator, reading this.state) is the one every call
\* reaches, the call in faceletsToCubies included. st is this.state.
findEdge(st, c1, c2) ==
    LET positions ==
            Arr(<<[face1 |-> "U", idx1 |-> 7, face2 |-> "F", idx2 |-> 1, side |-> "F"],
                  [face1 |-> "U", idx1 |-> 5, face2 |-> "R", idx2 |-> 1, side |-> "R"],
                  [face1 |-> "U", idx1 |-> 1, face2 |-> "B", idx2 |-> 1, side |-> "B"],
                  [face1 |-> "U", idx1 |-> 3, face2 |-> "L", idx2 |-> 1, side |-> "L"],
                  [face1 |-> "D", idx1 |-> 1, face2 |-> "F", idx2 |-> 7, side |-> "F"],
                  [face1 |-> "D", idx1 |-> 5, face2 |-> "R", idx2 |-> 7, side |-> "R"],
                  [face1 |-> "D", idx1 |-> 7, face2 |-> "B", idx2 |-> 7, side |-> "B"],
                  [face1 |-> "D", idx1 |-> 3, face2 |-> "L", idx2 |-> 7, side |-> "L"],
                  [face1 |-> "F", idx1 |-> 5, face2 |-> "R", idx2 |-> 3, side |-> "FR"],
                  [face1 |-> "F", idx1 |-> 3, face2 |-> "L", idx2 |-> 5, side |-> "FL"],
                  [face1 |-> "B", idx1 |-> 5, face2 |-> "L", idx2 |-> 3, side |-> "BL"],
                  [face1 |-> "B", idx1 |-> 3, face2 |-> "R", idx2 |-> 5, side |-> "BR"]>>)
        hit(p) ==
            LET a == st[p.face1][p.idx1]
                b == st[p.face2][p.idx2]
            IN  \/ strictEquals(a, c1) /\ strictEquals(b, c2)
                \/ strictEquals(a, c2) /\ strictEquals(b, c1)
        hits == {k \in DOMAIN positions : hit(positions[k])}
    IN  IF hits = {} THEN NoLoc
        ELSE positions[CHOOSE k \in hits : \A j \in hits : k <= j]

\* faceletsToCubies: the loop over the 8 corner slots
RECURSIVE cornerLoop(_, _, _, _)
cornerLoop(facelets, i, cornerPositions, cornerOrientations) ==
    IF i >= 8
    THEN [error |-> Undefined, cornerPositions |-> cornerPositions,
          cornerOrientations |-> cornerOrientations]
    ELSE LET corner == corners[i]
             colors == [j \in 0 .. 2 |-> at(facelets, corner.facelets[j])]
             unique == {colors[j] : j \in 0 .. 2}
             found == findCorner(colors)
         IN  IF Cardinality(unique) # 3
             THEN [error |-> "Corner piece at " \o getCornerName(i)
                                 \o " has duplicate colors."]
             ELSE IF found.index = -1
             THEN [error |-> "Impossible corner piece at " \o getCornerName(i)
                                 \o " (Colors do not form a valid corner)."]
             ELSE cornerLoop(facelets, i + 1, push(cornerPositions, found.index),
                             push(cornerOrientations, found.orientation))

\* faceletsToCubies: the loop over the 12 edge slots. this.findEdge(colors) is the
\* two-argument locator called with the colors array as c1 and c2 undefined: it
\* throws a TypeError while this.state is unset, and otherwise matches nothing and
\* returns null, whose .index is a TypeError too.
RECURSIVE edgeLoop(_, _, _, _, _)
edgeLoop(this, facelets, i, edgePositions, edgeOrientations) ==
    IF i >= 12
    THEN Return([error |-> Undefined, edgePositions |-> edgePositions,
                 edgeOrientations |-> edgeOrientations])
    ELSE LET edge == edges[i]
             colors == [j \in 0 .. 1 |-> at(facelets, edge.facelets[j])]
         IN  IF colors[0] = colors[1]
             THEN Return([error |-> "Edge piece at " \o getEdgeName(i)
                                        \o " has duplicate colors."])
             ELSE IF isString(this.state)
             THEN Throw("Cannot read properties of undefined (reading 'U')")
             ELSE LET found == findEdge(this.state, colors, Undefined)
                  IN  IF found = NoLoc
                      THEN Throw("Cannot read properties of null (reading 'index')")
                      ELSE \* a position object has no index and no orientation
                           edgeLoop(this, facelets, i + 1, push(edgePositions, Undefined),
                                    push(edgeOrientations, Undefined))

faceletsToCubies(this, facelets) ==
    LET c == cornerLoop(facelets, 0, Arr(<<>>), Arr(<<>>))
    IN  IF c.error # Undefined THEN Return([error |-> c.error])
        ELSE LET e == edgeLoop(this, facelets, 0, Arr(<<>>), Arr(<<>>))
             IN  IF e.throws THEN e
                 ELSE IF e.value.error # Undefined THEN e
                 ELSE Return([error |-> Undefined,
                              cornerPositions |-> c.cornerPositions,
                              cornerOrientations |-> c.cornerOrientations,
                              edgePositions |-> e.value.edgePositions,
                              edgeOrientations |-> e.value.edgeOrientations])

\* the loop of calculateParity with parity flipped once for each place that
\* is out of order, not once for each swap
RECURSIVE parityLoopFlippingOncePerPlace(_, _, _)
parityLoopFlippingOncePerPlace(copy, i, parity) ==
    IF i >= length(copy) THEN parity
    ELSE IF copy[i] # i
    THEN LET target == copy[i]
         IN  parityLoopFlippingOncePerPlace(
                 [copy EXCEPT ![i] = copy[target], ![target] = copy[i]], i,
                 IF copy[target] = i THEN 1 - parity ELSE parity)
    ELSE parityLoopFlippingOncePerPlace(copy, i + 1, parity)

\* calculateParity: the for loop with its inner while loop, on a copy of arr
RECURSIVE parityLoop(_, _, _)
parityLoop(copy, i, parity) ==
    IF i >= length(copy) THEN parity
    ELSE IF copy[i] # i
    THEN LET target == copy[i]
         IN  parityLoop([copy EXCEPT ![i] = copy[target], ![target] = copy[i]],
                        i, 1 - parity)
    ELSE parityLoop(copy, i + 1, parity)

calculateParity(arr) == parityLoop(arr, 0, 0)

\* a call of calculateParity: what it returns, and the caller's array after
\* it: the swaps are made in const copy = [...arr], a new array
calculateParityCall(arr) == [value |-> calculateParity(arr), arr |-> arr]

\* arr.reduce((a, b) => a + b, 0)
RECURSIVE sumFrom(_, _)
sumFrom(arr, i) == IF i >= length(arr) THEN 0 ELSE arr[i] + sumFrom(arr, i + 1)

validateInvariants(cubies) ==
    LET setSize(arr) == Cardinality({arr[i] : i \in DOMAIN arr})
    IN  IF setSize(cubies.cornerPositions) # 8
        THEN [valid |-> FALSE,
              error |-> "Cube contains duplicate corner pieces. Check for duplicate corners."]
        ELSE IF setSize(cubies.edgePositions) # 12
        THEN [valid |-> FALSE,
              error |-> "Cube contains duplicate edge pieces. Check for duplicate edges."]
        ELSE IF sumFrom(cubies.cornerOrientations, 0) % 3 # 0
        THEN [valid |-> FALSE,
              error |-> "Unsolvable State: One or more corners are twisted physically."]
        ELSE IF sumFrom(cubies.edgeOrientations, 0) % 2 # 0
        THEN [valid |-> FALSE,
              error |-> "Unsolvable State: One or more edges are flipped physically."]
        ELSE IF calculateParity(cubies.cornerPositions) # calculateParity(cubies.edgePositions)
        THEN [valid |-> FALSE,
              error |-> "Unsolvable State: Parity mismatch (likely 2 pieces swapped). Impossible to solve."]
        ELSE [valid |-> TRUE, error |-> Undefined]

(***************************************************************************)
(* Solver: the layer-by-layer solver. Every method takes the Solver object *)
(* (this: state, solution, phases) and gives the object it leaves.         *)
(***************************************************************************)
\* arr.includes(x) and arr.indexOf(x)
arrayIncludes(arr, x) == \E i \in DOMAIN arr : arr[i] = x
indexOf(arr, x) ==
    IF arrayIncludes(arr, x)
    THEN CHOOSE i \in DOMAIN arr : arr[i] = x /\ \A j \in DOMAIN arr : arr[j] = x => i <= j
    ELSE -1

createState(facelets) ==
    [face \in {faceOrder[k] : k \in DOMAIN faceOrder} |->
        [i \in 0 .. 8 |-> at(facelets, 9 * indexOf(faceOrder, face) + i)]]

getAdjacentEdges(face) ==
    LET row(f, a, b, c) == Arr(<<Arr(<<f, a>>), Arr(<<f, b>>), Arr(<<f, c>>)>>)
    IN  CASE face = "U" -> Arr(<<row("B", 0, 1, 2), row("R", 0, 1, 2),
                                 row("F", 0, 1, 2), row("L", 0, 1, 2)>>)
          [] face = "D" -> Arr(<<row("F", 6, 7, 8), row("R", 6, 7, 8),
                                 row("B", 6, 7, 8), row("L", 6, 7, 8)>>)
          [] face = "R" -> Arr(<<row("U", 8, 5, 2), row("B", 0, 3, 6),
                                 row("D", 8, 5, 2), row("F", 8, 5, 2)>>)
          [] face = "L" -> Arr(<<row("U", 0, 3, 6), row("F", 0, 3, 6),
                                 row("D", 0, 3, 6), row("B", 8, 5, 2)>>)
          [] face = "F" -> Arr(<<row("U", 6, 7, 8), row("R", 0, 3, 6),
                                 row("D", 2, 1, 0), row("L", 8, 5, 2)>>)
          [] face = "B" -> Arr(<<row("U", 2, 1, 0), row("L", 0, 3, 6),
                                 row("D", 6, 7, 8), row("R", 8, 5, 2)>>)

\* the two nested loops of rotateFace: one pass of the outer loop per call,
\* the three assignments of the inner loop in turn, each reading the state
\* as the assignments before it left it
RECURSIVE rotateAdjacent(_, _, _, _)
rotateAdjacent(st, adj, buffer, i) ==
    IF i >= 4 THEN st
    ELSE LET src == adj[(i + 3) % 4]
             dst == adj[i]
             assign(s, j) ==
                 [s EXCEPT ![dst[j][0]][dst[j][1]] =
                     IF i = 0 THEN buffer[j] ELSE s[src[j][0]][src[j][1]]]
         IN  rotateAdjacent(assign(assign(assign(st, 0), 1), 2), adj, buffer, i + 1)

\* the first half of rotateFace: the nine stickers of the face itself
rotateFaceStickers(st, face) ==
    LET temp == st[face]
    IN  [st EXCEPT ![face] = Arr(<<temp[6], temp[3], temp[0],
                                   temp[7], temp[4], temp[1],
                                   temp[8], temp[5], temp[2]>>)]

\* the second half of rotateFace: the buffer and the loops over adj
rotateFaceEdges(st, adj) ==
    rotateAdjacent(st, adj, [j \in 0 .. 2 |-> st[adj[0][j][0]][adj[0][j][1]]] @@ <<>>, 0)

rotateFace(st, face) ==
    rotateFaceEdges(rotateFaceStickers(st, face), getAdjacentEdges(face))

\* Solver.applyMove: the face turned once, twice or three times
RECURSIVE rotateTimes(_, _, _)
rotateTimes(st, face, times) ==
    IF times = 0 THEN st ELSE rotateTimes(rotateFace(st, face), face, times - 1)

solverApplyMove(st, move) ==
    LET face == at(move, 0)
        prime == includes(move, "'")
        double == includes(move, "2")
        times == IF double THEN 2 ELSE IF prime THEN 3 ELSE 1
    IN  rotateTimes(st, face, times)

\* the body of the loop of doMoves
doMove(this, move) ==
    [this EXCEPT !.state = solverApplyMove(this.state, move),
                 !.solution = push(this.solution, move)]

\* the loop of doMoves over moveList[from .. to - 1], run as two halves
RECURSIVE doMovesFrom(_, _, _, _)
doMovesFrom(this, moveList, from, to) ==
    IF from >= to THEN this
    ELSE IF to = from + 1 THEN doMove(this, moveList[from])
    ELSE LET half == doMovesFrom(this, moveList, from, (from + to) \div 2)
         IN  Strict(half, doMovesFrom(half, moveList, (from + to) \div 2, to))

doMoves(this, moveStr) ==
    doMovesFrom(this, split(moveStr), 0, length(split(moveStr)))

\* ---- phase 1: white cross ----
getBottomEdgeIdx(side) ==
    CASE side = "F" -> 1 [] side = "R" -> 5 [] side = "B" -> 7 [] side = "L" -> 3

\* alignBottomEdge and alignBottomCorner have the same body
alignBottomEdge(this, targetSide, currentSide) ==
    LET sides == Arr(<<"F", "R", "B", "L">>)
        targetIdx == indexOf(sides, targetSide)
        currentIdx == indexOf(sides, currentSide)
        diff == (targetIdx - currentIdx + 4) % 4
    IN  IF targetIdx = currentIdx THEN this
        ELSE IF diff = 1 THEN doMoves(this, "D'")
        ELSE IF diff = 2 THEN doMoves(this, "D2")
        ELSE IF diff = 3 THEN doMoves(this, "D")
        ELSE this

alignBottomCorner(this, targetSide, currentSide) ==
    alignBottomEdge(this, targetSide, currentSide)

moveMiddleEdgeToBottom(this, loc, targetSide) ==
    LET edgeMoves(name) ==
            CASE name = "FR" -> "R' D' R" [] name = "FL" -> "L D L'"
              [] name = "BL" -> "L' D' L" [] name = "BR" -> "R D R'"
              [] OTHER -> Undefined
        edgeName == loc.face1 \o loc.face2
        reverseName == loc.face2 \o loc.face1
    IN  IF edgeMoves(edgeName) # Undefined THEN doMoves(this, edgeMoves(edgeName))
        ELSE IF edgeMoves(reverseName) # Undefined
        THEN doMoves(this, edgeMoves(reverseName))
        ELSE this

getRightOf(side) ==
    LET order == Arr(<<"F", "R", "B", "L">>)
        idx == indexOf(order, side)
    IN  order[(idx + 1) % 4]

\* one pass of the for loop of solveWhiteCrossEdge, after its test that the
\* edge is solved
solveWhiteCrossEdgeAttempt(this, target) ==
    LET loc == findEdge(this.state, "U", target.side)
    IN  IF loc = NoLoc THEN this
        ELSE IF loc.face1 = "U"
        THEN IF loc.idx1 = target.uIdx
             THEN doMoves(this, target.side \o " " \o target.side)
             ELSE doMoves(this, loc.side \o " " \o loc.side)
        ELSE IF loc.face2 = "U"
        THEN LET sideWithWhite == loc.face1
             IN  alignBottomEdge(doMoves(this, sideWithWhite \o "'"),
                                 target.side, sideWithWhite)
        ELSE IF loc.face1 = "D" \/ loc.face2 = "D"
        THEN LET edgeSide == loc.side
                 aligned == alignBottomEdge(this, target.side, edgeSide)
             IN  IF aligned.state.D[getBottomEdgeIdx(target.side)] = "U"
                 THEN doMoves(aligned, target.side \o " " \o target.side)
                 ELSE doMoves(aligned, target.side \o "' U' "
                                  \o getRightOf(target.side) \o " U")
        ELSE moveMiddleEdgeToBottom(this, loc, target.side)

\* the passes from .. to - 1 of the for loop of solveWhiteCrossEdge, run as two halves;
\* a pass after the loop has returned does nothing
RECURSIVE solveWhiteCrossEdgeFrom(_, _, _, _)
solveWhiteCrossEdgeFrom(this, target, from, to) ==
    IF from >= to THEN this
    ELSE IF to = from + 1
    THEN IF /\ this.state.U[target.uIdx] = "U"
            /\ this.state[target.side][target.sideIdx] = target.side
         THEN this ELSE solveWhiteCrossEdgeAttempt(this, target)
    ELSE LET half == solveWhiteCrossEdgeFrom(this, target, from, (from + to) \div 2)
         IN  Strict(half, solveWhiteCrossEdgeFrom(half, target, (from + to) \div 2, to))

solveWhiteCrossEdge(this, target) == solveWhiteCrossEdgeFrom(this, target, 0, 20)

\* the loop of solveWhiteCross over its targets
RECURSIVE solveWhiteCrossFrom(_, _, _)
solveWhiteCrossFrom(this, crossEdges, k) ==
    IF k >= length(crossEdges) THEN this
    ELSE Strict(this, solveWhiteCrossFrom(solveWhiteCrossEdge(this, crossEdges[k]), crossEdges, k + 1))

solveWhiteCross(this) ==
    solveWhiteCrossFrom(this,
        Arr(<<[uIdx |-> 7, side |-> "F", sideIdx |-> 1],
              [uIdx |-> 5, side |-> "R", sideIdx |-> 1],
              [uIdx |-> 1, side |-> "B", sideIdx |-> 1],
              [uIdx |-> 3, side |-> "L", sideIdx |-> 1]>>),
        0)

\* ---- phase 2: white corners ----
findCornerLocation(st, c1, c2, c3) ==
    LET cornerPositions ==
            Arr(<<[layer |-> "U", uIdx |-> 8, s1 |-> "F", i1 |-> 2, s2 |-> "R", i2 |-> 0, rightSide |-> "R"],
                  [layer |-> "U", uIdx |-> 6, s1 |-> "L", i1 |-> 2, s2 |-> "F", i2 |-> 0, rightSide |-> "F"],
                  [layer |-> "U", uIdx |-> 0, s1 |-> "B", i1 |-> 2, s2 |-> "L", i2 |-> 0, rightSide |-> "L"],
                  [layer |-> "U", uIdx |-> 2, s1 |-> "R", i1 |-> 2, s2 |-> "B", i2 |-> 0, rightSide |-> "B"],
                  [layer |-> "D", dIdx |-> 2, s1 |-> "F", i1 |-> 8, s2 |-> "R", i2 |-> 6, bottomSide |-> "R"],
                  [layer |-> "D", dIdx |-> 0, s1 |-> "L", i1 |-> 8, s2 |-> "F", i2 |-> 6, bottomSide |-> "F"],
                  [layer |-> "D", dIdx |-> 6, s1 |-> "B", i1 |-> 8, s2 |-> "L", i2 |-> 6, bottomSide |-> "L"],
                  [layer |-> "D", dIdx |-> 8, s1 |-> "R", i1 |-> 8, s2 |-> "B", i2 |-> 6, bottomSide |-> "B"]>>)
        colorsAt(pos) ==
            IF pos.layer = "U"
            THEN Arr(<<st.U[pos.uIdx], st[pos.s1][pos.i1], st[pos.s2][pos.i2]>>)
            ELSE Arr(<<st.D[pos.dIdx], st[pos.s1][pos.i1], st[pos.s2][pos.i2]>>)
        hit(pos) == /\ arrayIncludes(colorsAt(pos), c1)
                    /\ arrayIncludes(colorsAt(pos), c2)
                    /\ arrayIncludes(colorsAt(pos), c3)
        hits == {k \in DOMAIN cornerPositions : hit(cornerPositions[k])}
    IN  IF hits = {} THEN NoLoc
        ELSE cornerPositions[CHOOSE k \in hits : \A j \in hits : k <= j]

getWhitePositionInBottomCorner(st, target) ==
    LET slotMap(side) ==
            CASE side = "R" -> [dIdx |-> 2, fSide |-> "F", fIdx |-> 8, rSide |-> "R", rIdx |-> 6]
              [] side = "F" -> [dIdx |-> 0, fSide |-> "L", fIdx |-> 8, rSide |-> "F", rIdx |-> 6]
              [] side = "L" -> [dIdx |-> 6, fSide |-> "B", fIdx |-> 8, rSide |-> "L", rIdx |-> 6]
              [] side = "B" -> [dIdx |-> 8, fSide |-> "R", fIdx |-> 8, rSide |-> "B", rIdx |-> 6]
        slot == slotMap(target.side2)
    IN  IF st.D[slot.dIdx] = "U" THEN "D"
        ELSE IF st[slot.rSide][slot.rIdx] = "U" THEN "right"
        ELSE "front"

\* one pass of the for loop of solveWhiteCorner, after its test that the
\* corner is solved
solveWhiteCornerAttempt(this, target) ==
    LET rightSide == target.side2
        topColors == Arr(<<this.state.U[target.uIdx],
                           this.state[target.side1][target.idx1],
                           this.state[target.side2][target.idx2]>>)
    IN  IF /\ arrayIncludes(topColors, "U")
           /\ arrayIncludes(topColors, target.side1)
           /\ arrayIncludes(topColors, target.side2)
        THEN doMoves(this, rightSide \o "' D' " \o rightSide)
        ELSE LET loc == findCornerLocation(this.state, "U", target.side1, target.side2)
             IN  IF loc = NoLoc THEN this
                 ELSE IF loc.layer = "U"
                 THEN doMoves(this, loc.rightSide \o "' D' " \o loc.rightSide)
                 ELSE LET aligned == alignBottomCorner(this, target.side2, loc.bottomSide)
                          whitePos == getWhitePositionInBottomCorner(aligned.state, target)
                          leftSide == target.side1
                      IN  IF whitePos = "D"
                          THEN doMoves(aligned, rightSide \o "' D2 " \o rightSide \o " D "
                                   \o rightSide \o "' D' " \o rightSide)
                          ELSE IF whitePos = "right"
                          THEN doMoves(aligned, rightSide \o "' D' " \o rightSide)
                          ELSE doMoves(aligned, leftSide \o " D " \o leftSide \o "'")

\* the passes from .. to - 1 of the for loop of solveWhiteCorner, run as two halves;
\* a pass after the loop has returned does nothing
RECURSIVE solveWhiteCornerFrom(_, _, _, _)
solveWhiteCornerFrom(this, target, from, to) ==
    IF from >= to THEN this
    ELSE IF to = from + 1
    THEN IF /\ this.state.U[target.uIdx] = "U"
            /\ this.state[target.side1][target.idx1] = target.side1
            /\ this.state[target.side2][target.idx2] = target.side2
         THEN this ELSE solveWhiteCornerAttempt(this, target)
    ELSE LET half == solveWhiteCornerFrom(this, target, from, (from + to) \div 2)
         IN  Strict(half, solveWhiteCornerFrom(half, target, (from + to) \div 2, to))

solveWhiteCorner(this, target) == solveWhiteCornerFrom(this, target, 0, 30)

\* the loop of solveWhiteCorners over its targets
RECURSIVE solveWhiteCornersFrom(_, _, _)
solveWhiteCornersFrom(this, targets, k) ==
    IF k >= length(targets) THEN this
    ELSE Strict(this, solveWhiteCornersFrom(solveWhiteCorner(this, targets[k]), targets, k + 1))

solveWhiteCorners(this) ==
    solveWhiteCornersFrom(this,
        Arr(<<[uIdx |-> 8, side1 |-> "F", side2 |-> "R", idx1 |-> 2, idx2 |-> 0],
              [uIdx |-> 6, side1 |-> "L", side2 |-> "F", idx1 |-> 2, idx2 |-> 0],
              [uIdx |-> 0, side1 |-> "B", side2 |-> "L", idx1 |-> 2, idx2 |-> 0],
              [uIdx |-> 2, side1 |-> "R", side2 |-> "B", idx1 |-> 2, idx2 |-> 0]>>),
        0)

\* ---- phase 3: middle layer ----
findMiddleEdge(st, c1, c2) ==
    LET topEdges ==
            Arr(<<[face |-> "D", idx |-> 1, side |-> "F", topIdx |-> 7, layer |-> "T"],
                  [face |-> "D", idx |-> 5, side |-> "R", topIdx |-> 7, layer |-> "T"],
                  [face |-> "D", idx |-> 7, side |-> "B", topIdx |-> 7, layer |-> "T"],
                  [face |-> "D", idx |-> 3, side |-> "L", topIdx |-> 7, layer |-> "T"]>>)
        midEdges ==
            Arr(<<[s1 |-> "F", i1 |-> 5, s2 |-> "R", i2 |-> 3, layer |-> "M"],
                  [s1 |-> "R", i1 |-> 5, s2 |-> "B", i2 |-> 3, layer |-> "M"],
                  [s1 |-> "B", i1 |-> 5, s2 |-> "L", i2 |-> 3, layer |-> "M"],
                  [s1 |-> "L", i1 |-> 5, s2 |-> "F", i2 |-> 3, layer |-> "M"]>>)
        pair(col1, col2) == (col1 = c1 /\ col2 = c2) \/ (col1 = c2 /\ col2 = c1)
        topHits == {k \in DOMAIN topEdges :
                        pair(st.D[topEdges[k].idx], st[topEdges[k].side][topEdges[k].topIdx])}
        midHits == {k \in DOMAIN midEdges :
                        pair(st[midEdges[k].s1][midEdges[k].i1],
                             st[midEdges[k].s2][midEdges[k].i2])}
    IN  IF topHits # {} THEN topEdges[CHOOSE k \in topHits : \A j \in topHits : k <= j]
        ELSE IF midHits # {} THEN midEdges[CHOOSE k \in midHits : \A j \in midHits : k <= j]
        ELSE NoLoc

popMiddleEdge(this, loc) ==
    IF loc.s1 = "F" /\ loc.s2 = "R" THEN doMoves(this, "D' R' D R D F D' F'")
    ELSE IF loc.s1 = "R" /\ loc.s2 = "B" THEN doMoves(this, "D' B' D B D R D' R'")
    ELSE IF loc.s1 = "B" /\ loc.s2 = "L" THEN doMoves(this, "D' L' D L D B D' B'")
    ELSE doMoves(this, "D' F' D F D L D' L'")

alignTopEdgeWithSide(this, sideColor) ==
    LET sides == Arr(<<"F", "R", "B", "L">>)
        found == {i \in 0 .. 3 : this.state[sides[i]][7] = sideColor}
    IN  IF found = {} THEN this
        ELSE LET currentIdx == CHOOSE i \in found : \A j \in found : i <= j
                 targetIdx == indexOf(sides, sideColor)
                 diff == (targetIdx - currentIdx + 4) % 4
             IN  IF diff = 1 THEN doMoves(this, "D'")
                 ELSE IF diff = 2 THEN doMoves(this, "D2")
                 ELSE IF diff = 3 THEN doMoves(this, "D")
                 ELSE this

\* one pass of the for loop of solveMiddleEdge, after its test that the
\* edge is solved
solveMiddleEdgeAttempt(this, slot) ==
    LET loc == findMiddleEdge(this.state, slot.fSide, slot.sSide)
    IN  IF loc = NoLoc THEN this
        ELSE IF loc.layer = "M" THEN popMiddleEdge(this, loc)
        ELSE LET edgeTopColor == this.state[loc.side][loc.topIdx]
                 aligned == alignTopEdgeWithSide(this, edgeTopColor)
             IN  IF loc.side = slot.fSide
                 THEN doMoves(aligned, "D' " \o slot.sSide \o "' D " \o slot.sSide
                          \o " D " \o slot.fSide \o " D' " \o slot.fSide \o "'")
                 ELSE doMoves(aligned, "D " \o slot.fSide \o " D' " \o slot.fSide
                          \o "' D' " \o slot.sSide \o "' D " \o slot.sSide)

\* the passes from .. to - 1 of the for loop of solveMiddleEdge, run as two halves;
\* a pass after the loop has returned does nothing
RECURSIVE solveMiddleEdgeFrom(_, _, _, _)
solveMiddleEdgeFrom(this, slot, from, to) ==
    IF from >= to THEN this
    ELSE IF to = from + 1
    THEN IF /\ this.state[slot.fSide][slot.fIdx] = slot.fSide
            /\ this.state[slot.sSide][slot.sIdx] = slot.sSide
         THEN this ELSE solveMiddleEdgeAttempt(this, slot)
    ELSE LET half == solveMiddleEdgeFrom(this, slot, from, (from + to) \div 2)
         IN  Strict(half, solveMiddleEdgeFrom(half, slot, (from + to) \div 2, to))

solveMiddleEdge(this, slot) == solveMiddleEdgeFrom(this, slot, 0, 20)

\* the loop of solveMiddleLayer over its targets
RECURSIVE solveMiddleLayerFrom(_, _, _)
solveMiddleLayerFrom(this, slots, k) ==
    IF k >= length(slots) THEN this
    ELSE Strict(this, solveMiddleLayerFrom(solveMiddleEdge(this, slots[k]), slots, k + 1))

solveMiddleLayer(this) ==
    solveMiddleLayerFrom(this,
        Arr(<<[edge |-> Arr(<<"F", "R">>), fIdx |-> 5, sIdx |-> 3, fSide |-> "F", sSide |-> "R"],
              [edge |-> Arr(<<"R", "B">>), fIdx |-> 5, sIdx |-> 3, fSide |-> "R", sSide |-> "B"],
              [edge |-> Arr(<<"B", "L">>), fIdx |-> 5, sIdx |-> 3, fSide |-> "B", sSide |-> "L"],
              [edge |-> Arr(<<"L", "F">>), fIdx |-> 5, sIdx |-> 3, fSide |-> "L", sSide |-> "F"]>>),
        0)

\* ---- phase 4: yellow cross ----
getYellowCrossPattern(st) ==
    LET d == st.D
        top == d[1] = "D"
        right == d[5] = "D"
        bottom == d[7] = "D"
        left == d[3] = "D"
        count == Cardinality({k \in 1 .. 4 : <<top, right, bottom, left>>[k]})
    IN  IF count = 4 THEN "cross"
        ELSE IF count = 0 THEN "dot"
        ELSE IF count = 2
        THEN IF (top /\ bottom) \/ (left /\ right) THEN "line" ELSE "L"
        ELSE "unknown"

RECURSIVE orientYellowLFrom(_, _)
orientYellowLFrom(this, i) ==
    IF i >= 4 THEN this
    ELSE IF this.state.D[7] = "D" /\ this.state.D[3] = "D" THEN this
    ELSE orientYellowLFrom(doMoves(this, "D"), i + 1)

orientYellowL(this) == orientYellowLFrom(this, 0)

\* the passes from .. to - 1 of the for loop of solveYellowCross, run as two halves;
\* a pass after the loop has returned does nothing
RECURSIVE solveYellowCrossFrom(_, _, _)
solveYellowCrossFrom(this, from, to) ==
    IF from >= to THEN this
    ELSE IF to = from + 1
    THEN LET pattern == getYellowCrossPattern(this.state)
         IN  IF pattern = "cross" THEN this
             ELSE IF pattern = "dot" THEN doMoves(this, "F D R D' R' F'")
             ELSE IF pattern = "line"
             THEN doMoves(IF this.state.D[3] # "D" THEN doMoves(this, "D") ELSE this,
                          "F D R D' R' F'")
             ELSE IF pattern = "L" THEN doMoves(orientYellowL(this), "F D R D' R' F'")
             ELSE this
    ELSE LET half == solveYellowCrossFrom(this, from, (from + to) \div 2)
         IN  Strict(half, solveYellowCrossFrom(half, (from + to) \div 2, to))

solveYellowCross(this) == solveYellowCrossFrom(this, 0, 10)

\* ---- phase 5: yellow face ----
countYellowCorners(st) == Cardinality({i \in {0, 2, 6, 8} : st.D[i] = "D"})

\* the three loops of positionForYellowCorners: turn D until the test holds
RECURSIVE turnDUntil(_, _, _)
turnDUntil(this, yellowCount, i) ==
    LET st == this.state
        there == CASE yellowCount = 0 -> st.L[8] = "D"
                   [] yellowCount = 1 -> st.D[0] = "D"
                   [] yellowCount = 2 -> st.R[6] = "D" /\ st.R[8] = "D"
    IN  IF i >= 4 THEN this
        ELSE IF there THEN this
        ELSE turnDUntil(doMoves(this, "D"), yellowCount, i + 1)

positionForYellowCorners(this, yellowCount) ==
    IF yellowCount \in {0, 1, 2} THEN turnDUntil(this, yellowCount, 0) ELSE this

\* the passes from .. to - 1 of the for loop of solveYellowFace, run as two halves;
\* a pass after the loop has returned does nothing
RECURSIVE solveYellowFaceFrom(_, _, _)
solveYellowFaceFrom(this, from, to) ==
    IF from >= to THEN this
    ELSE IF to = from + 1
    THEN LET yellowCorners == countYellowCorners(this.state)
         IN  IF yellowCorners = 4 THEN this
             ELSE doMoves(positionForYellowCorners(this, yellowCorners),
                          "R D R' D R D2 R'")
    ELSE LET half == solveYellowFaceFrom(this, from, (from + to) \div 2)
         IN  Strict(half, solveYellowFaceFrom(half, (from + to) \div 2, to))

\* solveYellowFace with one pass more than its budget
solveYellowFaceOnceMore(this) == solveYellowFaceFrom(this, 0, 21)

solveYellowFace(this) == solveYellowFaceFrom(this, 0, 20)

\* ---- phase 6: last layer ----
\* the corner table shared by cornersPositioned and findCorrectlyPositionedCorner
lastLayerCorners ==
    Arr(<<[d |-> 0, s1 |-> "F", i1 |-> 6, s2 |-> "L", i2 |-> 8, c1 |-> "F", c2 |-> "L", pos |-> 0],
          [d |-> 2, s1 |-> "R", i1 |-> 6, s2 |-> "F", i2 |-> 8, c1 |-> "R", c2 |-> "F", pos |-> 1],
          [d |-> 6, s1 |-> "L", i1 |-> 6, s2 |-> "B", i2 |-> 8, c1 |-> "L", c2 |-> "B", pos |-> 2],
          [d |-> 8, s1 |-> "B", i1 |-> 6, s2 |-> "R", i2 |-> 8, c1 |-> "B", c2 |-> "R", pos |-> 3]>>)

cornerInPlace(st, c) ==
    LET colors == Arr(<<st.D[c.d], st[c.s1][c.i1], st[c.s2][c.i2]>>)
    IN  /\ arrayIncludes(colors, "D")
        /\ arrayIncludes(colors, c.c1)
        /\ arrayIncludes(colors, c.c2)

cornersPositioned(st) ==
    \A k \in DOMAIN lastLayerCorners : cornerInPlace(st, lastLayerCorners[k])

findCorrectlyPositionedCorner(st) ==
    LET hits == {k \in DOMAIN lastLayerCorners : cornerInPlace(st, lastLayerCorners[k])}
    IN  IF hits = {} THEN -1
        ELSE lastLayerCorners[CHOOSE k \in hits : \A j \in hits : k <= j].pos

RECURSIVE turnDTimes(_, _)
turnDTimes(this, times) ==
    IF times = 0 THEN this ELSE turnDTimes(doMoves(this, "D"), times - 1)

rotateDToPosition(this, pos) ==
    LET rotations == Arr(<<2, 1, 0, 3>>)
    IN  turnDTimes(this, rotations[pos])

\* the passes from .. to - 1 of the for loop of positionLastLayerCorners, run as two halves;
\* a pass after the loop has returned does nothing
RECURSIVE positionLastLayerCornersFrom(_, _, _)
positionLastLayerCornersFrom(this, from, to) ==
    IF from >= to THEN this
    ELSE IF to = from + 1
    THEN IF cornersPositioned(this.state) THEN this
         ELSE LET correctCorner == findCorrectlyPositionedCorner(this.state)
              IN  doMoves(IF correctCorner # -1
                          THEN rotateDToPosition(this, correctCorner)
                          ELSE this,
                          "D R' D' L D R D' L'")
    ELSE LET half == positionLastLayerCornersFrom(this, from, (from + to) \div 2)
         IN  Strict(half, positionLastLayerCornersFrom(half, (from + to) \div 2, to))

positionLastLayerCorners(this) == positionLastLayerCornersFrom(this, 0, 10)

edgesSolved(st) ==
    st.F[7] = "F" /\ st.R[7] = "R" /\ st.B[7] = "B" /\ st.L[7] = "L"

\* the passes from .. to - 1 of the for loop of positionLastLayerEdges, run as two halves;
\* a pass after the loop has returned does nothing
RECURSIVE positionLastLayerEdgesFrom(_, _, _)
positionLastLayerEdgesFrom(this, from, to) ==
    IF from >= to THEN this
    ELSE IF to = from + 1
    THEN IF edgesSolved(this.state) THEN this
         ELSE doMoves(this, "R2 D R D R' D' R' D' R' D R'")
    ELSE LET half == positionLastLayerEdgesFrom(this, from, (from + to) \div 2)
         IN  Strict(half, positionLastLayerEdgesFrom(half, (from + to) \div 2, to))

positionLastLayerEdges(this) == positionLastLayerEdgesFrom(this, 0, 15)

RECURSIVE alignLastLayerFrom(_, _)
alignLastLayerFrom(this, i) ==
    IF i >= 4 THEN this
    ELSE IF this.state.F[7] = "F" /\ this.state.R[7] = "R" THEN this
    ELSE alignLastLayerFrom(doMoves(this, "D"), i + 1)

alignLastLayer(this) == alignLastLayerFrom(this, 0)

solveLastLayer(this) ==
    alignLastLayer(positionLastLayerEdges(positionLastLayerCorners(this)))

\* ---- the six phases ----
\* (an icon is written as the name of its character)
\* this.phases.push({name, icon, moves: [...this.solution.slice(phaseStart)], description})
\* pushPhase with the phase's moves taken from the start of the solution
pushPhaseFromTheStart(this, phaseStart, name, icon, description) ==
    [this EXCEPT !.phases = push(this.phases,
        [name |-> name, icon |-> icon,
         moves |-> slice(this.solution, 0),
         description |-> description])]

pushPhase(this, phaseStart, name, icon, description) ==
    [this EXCEPT !.phases = push(this.phases,
        [name |-> name, icon |-> icon,
         moves |-> slice(this.solution, phaseStart),
         description |-> description])]

\* each phase of solveCube, on the Solver object the phase before it left:
\* the phase's solver, then the phase pushed with the moves added since
\* phaseStart, the length of the solution before it
whiteCrossPhase(this) ==
    Strict(this, pushPhase(solveWhiteCross(this), length(this.solution),
                           "White Cross", "heavy plus sign", "Creating the white cross on top"))

firstLayerPhase(this) ==
    Strict(this, pushPhase(solveWhiteCorners(this), length(this.solution),
                           "First Layer", "brick", "Inserting white corners"))

secondLayerPhase(this) ==
    Strict(this, pushPhase(solveMiddleLayer(this), length(this.solution),
                           "Second Layer", "package", "Solving middle layer edges"))

yellowCrossPhase(this) ==
    Strict(this, pushPhase(solveYellowCross(this), length(this.solution),
                           "Yellow Cross", "heavy Greek cross", "Creating yellow cross"))

yellowFacePhase(this) ==
    Strict(this, pushPhase(solveYellowFace(this), length(this.solution),
                           "Yellow Face", "yellow circle", "Orienting yellow corners"))

finalLayerPhase(this) ==
    Strict(this, pushPhase(solveLastLayer(this), length(this.solution),
                           "Final Layer", "sparkles", "Permuting last layer"))

\* return { solution: this.solution, phases: this.phases }
solveCubeReturn(this) ==
    Strict(this,
        [this |-> this, value |-> [solution |-> this.solution, phases |-> this.phases]])

solveCube(this, facelets) ==
    solveCubeReturn(
        finalLayerPhase(yellowFacePhase(yellowCrossPhase(
            secondLayerPhase(firstLayerPhase(whiteCrossPhase(
                [state |-> createState(facelets), solution |-> Arr(<<>>),
                 phases |-> Arr(<<>>)])))))))

(***************************************************************************)
(* Solver.solve: the outcome of the try block, then the catch around it.   *)
(* Both give the Solver object the call leaves, what the call returns or   *)
(* throws, and the caller's paintState object as the call leaves it: an    *)
(* object is passed by reference, and no step of solve assigns through it. *)
(***************************************************************************)
failure(error) == [success |-> FALSE, solution |-> Arr(<<>>), phases |-> Arr(<<>>),
                   error |-> error]

\* the return at the end of the try block, with step 8 in it: the optimizer
\* on the moves of result, what solveCube gave
solveReturn(paintState, result) ==
    Strict(result,
        [this |-> result.this,
         out |-> Return([success |-> TRUE,
                         solution |-> optimizeMoves(result.value.solution),
                         phases |-> result.value.phases, error |-> Null]),
         paintState |-> paintState])

\* steps 7 and 8 of solve and the return after them: the layer solver on
\* facelets, the optimizer on its moves, and the result object
solveAndOptimize(this, paintState, facelets) ==
    solveReturn(paintState, solveCube(this, facelets))

\* the try block of solve from each of its constants on, latest first
\* from invariantCheck on (step 6)
solveFromInvariantCheck(this, paintState, facelets, invariantCheck) ==
    IF ~invariantCheck.valid
    THEN [this |-> this, out |-> Return(failure(invariantCheck.error)),
          paintState |-> paintState]
    ELSE solveAndOptimize(this, paintState, facelets)

\* from cubies on (step 5)
solveFromCubies(this, paintState, facelets, cubies) ==
    IF cubies.throws THEN [this |-> this, out |-> cubies, paintState |-> paintState]
    ELSE IF cubies.value.error # Undefined
    THEN [this |-> this, out |-> Return(failure(cubies.value.error)),
          paintState |-> paintState]
    ELSE solveFromInvariantCheck(this, paintState, facelets,
                                 validateInvariants(cubies.value))

\* from facelets on (step 4)
solveFromFacelets(this, paintState, facelets) ==
    IF facelets.throws THEN [this |-> this, out |-> facelets, paintState |-> paintState]
    ELSE solveFromCubies(this, paintState, facelets.value,
                         faceletsToCubies(this, facelets.value))

\* a variant of the try block that writes the face letters of step 4 into
\* paintState
solveRelabelling(this, paintState, validation) ==
    IF validation.throws
    THEN [this |-> this, out |-> validation, paintState |-> paintState]
    ELSE IF ~validation.value.valid
    THEN [this |-> this, out |-> Return(failure(validation.value.error)),
          paintState |-> paintState]
    ELSE solveFromFacelets(this,
             [face \in DOMAIN paintState |->
                 [i \in DOMAIN paintState[face] |->
                     getKey(mapColorsToFaces(paintState), paintState[face][i])]],
             toFaceletString(paintState, mapColorsToFaces(paintState)))

\* from validation on (steps 1 and 2), with colorToFace (step 3)
solveFromValidation(this, paintState, validation) ==
    IF validation.throws
    THEN [this |-> this, out |-> validation, paintState |-> paintState]
    ELSE IF ~validation.value.valid
    THEN [this |-> this, out |-> Return(failure(validation.value.error)),
          paintState |-> paintState]
    ELSE solveFromFacelets(this, paintState,
             toFaceletString(paintState, mapColorsToFaces(paintState)))

solveTry(this, paintState) ==
    solveFromValidation(this, paintState, validateState(paintState))

\* the catch block of solve, on what the try block left
solveCatch(body) ==
    IF body.out.throws
    THEN [this |-> body.this,
          out |-> Return(failure("Solver error: " \o body.out.message)),
          paintState |-> body.paintState]
    ELSE body

\* a variant of solve without the catch block
solveUncaught(this, paintState) == solveTry(this, paintState)

solve(this, paintState) == solveCatch(solveTry(this, paintState))

(***************************************************************************)
(* CubeRenderer: paint mode                                                *)
(***************************************************************************)
\* the colors of the palette, and the 27 cubies by their userData
PaintColors == {"W", "Y", "R", "O", "B", "G"}
Cubies == [x : -1 .. 1, y : -1 .. 1, z : -1 .. 1]

\* buildCube(unpainted): the paint state it creates
buildCube(unpainted) ==
    IF unpainted
    THEN [U |-> Face9("U"), D |-> Face9("U"), F |-> Face9("U"),
          B |-> Face9("U"), L |-> Face9("U"), R |-> Face9("U")]
    ELSE [U |-> Face9("W"), D |-> Face9("Y"), F |-> Face9("G"),
          B |-> Face9("B"), L |-> Face9("O"), R |-> Face9("R")]

\* the renderer as its constructor leaves it: buildCube(), the color 'W', and
\* paint mode off
newRenderer == [paintState |-> buildCube(FALSE), selectedColor |-> "W", paintMode |-> FALSE]

noSticker == [faceName |-> Null, stickerIndex |-> -1]

getFaceAndIndex(cubie, materialIndex) ==
    LET x == cubie.x
        y == cubie.y
        z == cubie.z
        sticker(faceName, row, col) == [faceName |-> faceName, stickerIndex |-> row * 3 + col]
    IN  CASE materialIndex = 0 -> IF x # 1 THEN noSticker ELSE sticker("R", 1 - y, 1 - z)
          [] materialIndex = 1 -> IF x # -1 THEN noSticker ELSE sticker("L", 1 - y, z + 1)
          [] materialIndex = 2 -> IF y # 1 THEN noSticker ELSE sticker("U", z + 1, x + 1)
          [] materialIndex = 3 -> IF y # -1 THEN noSticker ELSE sticker("D", 1 - z, x + 1)
          [] materialIndex = 4 -> IF z # 1 THEN noSticker ELSE sticker("F", 1 - y, x + 1)
          [] materialIndex = 5 -> IF z # -1 THEN noSticker ELSE sticker("B", 1 - y, 1 - x)
          [] OTHER -> noSticker

\* getColorCounts()[color] for a color of the palette
getColorCounts(paintState, color) ==
    Cardinality({<<face, i>> \in (DOMAIN paintState) \X (0 .. 8) : paintState[face][i] = color})

getColorName(code) ==
    CASE code = "W" -> "White" [] code = "Y" -> "Yellow" [] code = "R" -> "Red"
      [] code = "O" -> "Orange" [] code = "B" -> "Blue" [] code = "G" -> "Green"
      [] OTHER -> code

\* the visibleFaces of a cubie, as pairs of material index and face
visibleFaces(cubie) ==
    (IF cubie.x = 1 THEN {[matIdx |-> 0, face |-> "R"]} ELSE {})
        \cup (IF cubie.x = -1 THEN {[matIdx |-> 1, face |-> "L"]} ELSE {})
        \cup (IF cubie.y = 1 THEN {[matIdx |-> 2, face |-> "U"]} ELSE {})
        \cup (IF cubie.y = -1 THEN {[matIdx |-> 3, face |-> "D"]} ELSE {})
        \cup (IF cubie.z = 1 THEN {[matIdx |-> 4, face |-> "F"]} ELSE {})
        \cup (IF cubie.z = -1 THEN {[matIdx |-> 5, face |-> "B"]} ELSE {})

\* a variant of validatePaint without rule 2
validatePaintWithoutTheCubieRule(this, cubie, paintingMaterialIndex, color) ==
    LET current == getFaceAndIndex(cubie, paintingMaterialIndex)
        currentColor == this.paintState[current.faceName][current.stickerIndex]
        taken == {k \in 1 .. Len(CubeFaces) :
                     /\ CubeFaces[k] # current.faceName
                     /\ this.paintState[CubeFaces[k]][4] = color}
    IN  IF currentColor = color THEN [valid |-> TRUE, reason |-> Undefined]
        ELSE IF getColorCounts(this.paintState, color) >= 9
        THEN [valid |-> FALSE,
              reason |-> "Already have 9 " \o getColorName(color) \o " stickers!"]
        ELSE IF current.stickerIndex = 4 /\ taken # {}
        THEN [valid |-> FALSE,
              reason |-> "Center " \o getColorName(color) \o " is already used on "
                         \o CubeFaces[CHOOSE k \in taken : \A j \in taken : k <= j]
                         \o " face!"]
        ELSE [valid |-> TRUE, reason |-> Undefined]

\* validatePaint: rule 1 (at most 9 of a color), rule 3 (centers differ) and
\* rule 2 (no color twice on one cubie), in the order of the code. The reason
\* of rule 3 names the first face of Object.entries(paintState) with the color.
validatePaint(this, cubie, paintingMaterialIndex, color) ==
    LET current == getFaceAndIndex(cubie, paintingMaterialIndex)
        currentColor == this.paintState[current.faceName][current.stickerIndex]
        taken == {k \in 1 .. Len(CubeFaces) :
                     /\ CubeFaces[k] # current.faceName
                     /\ this.paintState[CubeFaces[k]][4] = color}
        others == {v \in visibleFaces(cubie) : v.matIdx # paintingMaterialIndex}
    IN  IF currentColor = color THEN [valid |-> TRUE, reason |-> Undefined]
        ELSE IF getColorCounts(this.paintState, color) >= 9
        THEN [valid |-> FALSE,
              reason |-> "Already have 9 " \o getColorName(color) \o " stickers!"]
        ELSE IF current.stickerIndex = 4 /\ taken # {}
        THEN [valid |-> FALSE,
              reason |-> "Center " \o getColorName(color) \o " is already used on "
                         \o CubeFaces[CHOOSE k \in taken : \A j \in taken : k <= j]
                         \o " face!"]
        ELSE IF \E v \in others :
                    this.paintState[v.face][getFaceAndIndex(cubie, v.matIdx).stickerIndex]
                        = color
        THEN [valid |-> FALSE,
              reason |-> "This piece already has " \o getColorName(color)
                         \o " on another face!"]
        ELSE [valid |-> TRUE, reason |-> Undefined]

\* handlePaint() on a ray that hits the triangle faceIndex of a cubie: the
\* renderer it leaves and what it hands to onPaintCallback
handlePaintValidated(this, cubie, materialIndex, hit, validation) ==
    IF ~validation.valid
    THEN [this |-> this,
          callback |-> <<hit.faceName, hit.stickerIndex, Null, validation.reason>>]
    ELSE [this |-> [this EXCEPT !.paintState[hit.faceName][hit.stickerIndex] =
                                    this.selectedColor],
          callback |-> <<hit.faceName, hit.stickerIndex, this.selectedColor, Null>>]

handlePaintHit(this, cubie, materialIndex, hit) ==
    IF hit.faceName # Null /\ hit.stickerIndex # -1
    THEN handlePaintValidated(this, cubie, materialIndex, hit,
             validatePaint(this, cubie, materialIndex, this.selectedColor))
    ELSE [this |-> this, callback |-> Undefined]

handlePaint(this, cubie, faceIndex) ==
    handlePaintHit(this, cubie, faceIndex \div 2, getFaceAndIndex(cubie, faceIndex \div 2))

(***************************************************************************)
(* Controls: the play controls with their own move history and redo stack  *)
(***************************************************************************)
\* the Controls object as its constructor leaves it
newControls == [userMoveHistory |-> Arr(<<>>), redoStack |-> Arr(<<>>)]

\* the cube and the controls that a handler of Controls leaves
executeMove(c, this, move) ==
    [cube |-> applyMove(c, move, TRUE),
     this |-> [userMoveHistory |-> push(this.userMoveHistory, move),
               redoStack |-> Arr(<<>>)]]

controlsReset(c, this) ==
    [cube |-> reset, this |-> [userMoveHistory |-> Arr(<<>>), redoStack |-> Arr(<<>>)]]

\* a variant of Controls.undo that turns the face the way the move turned it
controlsUndoRepeating(c, this) ==
    IF length(this.userMoveHistory) = 0 THEN [cube |-> c, this |-> this]
    ELSE LET lastMove == this.userMoveHistory[length(this.userMoveHistory) - 1]
         IN  [cube |-> applyMove(c, lastMove, TRUE),
              this |-> [userMoveHistory |-> pop(this.userMoveHistory),
                        redoStack |-> push(this.redoStack, lastMove)]]

controlsUndo(c, this) ==
    IF length(this.userMoveHistory) = 0 THEN [cube |-> c, this |-> this]
    ELSE LET lastMove == this.userMoveHistory[length(this.userMoveHistory) - 1]
             inverse == getInverseMove(lastMove)
         IN  [cube |-> applyMove(c, inverse, TRUE),
              this |-> [userMoveHistory |-> pop(this.userMoveHistory),
                        redoStack |-> push(this.redoStack, lastMove)]]

controlsRedo(c, this) ==
    IF length(this.redoStack) = 0 THEN [cube |-> c, this |-> this]
    ELSE LET move == this.redoStack[length(this.redoStack) - 1]
         IN  [cube |-> applyMove(c, move, TRUE),
              this |-> [userMoveHistory |-> push(this.userMoveHistory, move),
                        redoStack |-> pop(this.redoStack)]]

\* The async handlers of Controls, each in two steps: from its start to the
\* await of renderer.animateMove, and from there to its end. A handler that
\* waits is a record of its name and its local move.
\* executeMove(move) up to the await: the cube it leaves
executeMoveToAwait(c, move) == applyMove(c, move, TRUE)

\* executeMove(move) after the await: the controls it leaves
executeMoveAfterAwait(this, move) ==
    [userMoveHistory |-> push(this.userMoveHistory, move), redoStack |-> Arr(<<>>)]

\* undo() up to the await, on a history that is not empty: its lastMove, and
\* the cube and the controls it leaves
undoToAwait(c, this) ==
    LET lastMove == this.userMoveHistory[length(this.userMoveHistory) - 1]
    IN  [lastMove |-> lastMove,
         cube |-> applyMove(c, getInverseMove(lastMove), TRUE),
         this |-> [this EXCEPT !.userMoveHistory = pop(this.userMoveHistory)]]

undoAfterAwait(this, lastMove) ==
    [this EXCEPT !.redoStack = push(this.redoStack, lastMove)]

\* redo() up to the await, on a redo stack that is not empty
redoToAwait(c, this) ==
    LET move == this.redoStack[length(this.redoStack) - 1]
    IN  [move |-> move,
         cube |-> applyMove(c, move, TRUE),
         this |-> [this EXCEPT !.redoStack = pop(this.redoStack)]]

redoAfterAwait(this, move) ==
    [this EXCEPT !.userMoveHistory = push(this.userMoveHistory, move)]

\* the handler whose await ends goes on
afterAwait(this, handler) ==
    CASE handler.op = "executeMove" -> executeMoveAfterAwait(this, handler.move)
      [] handler.op = "undo" -> undoAfterAwait(this, handler.move)
      [] handler.op = "redo" -> redoAfterAwait(this, handler.move)

(***************************************************************************)
(* CubieCube and KociembaSolver                                            *)
(***************************************************************************)
\* new CubieCube()
newCubieCube ==
    [cp |-> Arr(<<0, 1, 2, 3, 4, 5, 6, 7>>),
     co |-> Arr(<<0, 0, 0, 0, 0, 0, 0, 0>>),
     ep |-> Arr(<<0, 1, 2, 3, 4, 5, 6, 7, 8, 9, 10, 11>>),
     eo |-> Arr(<<0, 0, 0, 0, 0, 0, 0, 0, 0, 0, 0, 0>>)]

\* this.multiply(move)
multiply(this, move) ==
    [cp |-> [i \in 0 .. 7 |-> this.cp[move.cp[i]]],
     co |-> [i \in 0 .. 7 |-> (this.co[move.cp[i]] + move.co[i]) % 3],
     ep |-> [i \in 0 .. 11 |-> this.ep[move.ep[i]]],
     eo |-> [i \in 0 .. 11 |-> (this.eo[move.ep[i]] + move.eo[i]) % 2]]

\* the table C_nk that initCnk fills, and Cnk(n, k)
RECURSIVE C_nk(_, _)
C_nk(i, j) == IF j = 0 \/ j = i THEN 1 ELSE C_nk(i - 1, j - 1) + C_nk(i - 1, j)

\* the filled table, rows 0 to 12
C_nkTable == [i \in 0 .. 12 |-> [j \in 0 .. i |-> C_nk(i, j)] @@ <<>>] @@ <<>>

Cnk(n, k) == IF n < k \/ k < 0 THEN 0 ELSE C_nkTable[n][k]

RECURSIVE getTwistFrom(_, _, _)
getTwistFrom(this, i, sum) ==
    IF i >= 7 THEN sum ELSE getTwistFrom(this, i + 1, 3 * sum + this.co[i])

getTwist(this) == getTwistFrom(this, 0, 0)

RECURSIVE setTwistFrom(_, _, _, _)
setTwistFrom(this, i, twist, twistParity) ==
    IF i < 0 THEN [this EXCEPT !.co[7] = (3 - (twistParity % 3)) % 3]
    ELSE setTwistFrom([this EXCEPT !.co[i] = twist % 3], i - 1, twist \div 3,
                      twistParity + (twist % 3))

setTwist(this, twist) == setTwistFrom(this, 6, twist, 0)

RECURSIVE getFlipFrom(_, _, _)
getFlipFrom(this, i, sum) ==
    IF i >= 11 THEN sum ELSE getFlipFrom(this, i + 1, 2 * sum + this.eo[i])

getFlip(this) == getFlipFrom(this, 0, 0)

RECURSIVE setFlipFrom(_, _, _, _)
setFlipFrom(this, i, flip, flipParity) ==
    IF i < 0 THEN [this EXCEPT !.eo[11] = (2 - (flipParity % 2)) % 2]
    ELSE setFlipFrom([this EXCEPT !.eo[i] = flip % 2], i - 1, flip \div 2,
                     flipParity + (flip % 2))

setFlip(this, flip) == setFlipFrom(this, 10, flip, 0)

\* getSlice: the loop from slot 11 down to slot 0 (sum is the local ret)
RECURSIVE getSliceFrom(_, _, _, _)
getSliceFrom(this, i, sum, x) ==
    IF i < 0 THEN sum
    ELSE IF this.ep[i] >= 8 /\ this.ep[i] <= 11
    THEN getSliceFrom(this, i - 1, sum + Cnk(11 - i, x), x + 1)
    ELSE getSliceFrom(this, i - 1, sum, x)

getSlice(this) == getSliceFrom(this, 11, 0, 0)

\* setSlice: the loop that marks the slice slots with 8, on ep filled with -1
RECURSIVE placeSliceEdges(_, _, _, _)
placeSliceEdges(ep, i, coord, x) ==
    IF i >= 12 THEN ep
    ELSE IF coord >= Cnk(11 - i, x)
    THEN placeSliceEdges(ep, i + 1, coord - Cnk(11 - i, x), x)
    ELSE placeSliceEdges([ep EXCEPT ![i] = 8], i + 1, coord, x - 1)

\* setSlice: the loop that numbers the slice slots from 8 and the rest from 0
RECURSIVE fillTheRest(_, _, _, _)
fillTheRest(ep, i, other, sl) ==
    IF i >= 12 THEN ep
    ELSE IF ep[i] = 8
    THEN fillTheRest([ep EXCEPT ![i] = sl], i + 1, other, sl + 1)
    ELSE fillTheRest([ep EXCEPT ![i] = other], i + 1, other + 1, sl)

setSlice(this, coord) ==
    [this EXCEPT !.ep = fillTheRest(placeSliceEdges([i \in 0 .. 11 |-> -1], 0, coord, 4),
                                    0, 0, 8)]

\* basicMoves as initBasicMoves leaves it: U, R, F, D, L, B
basicMoves ==
    Arr(<<[cp |-> Arr(<<3, 0, 1, 2, 4, 5, 6, 7>>),
           co |-> Arr(<<0, 0, 0, 0, 0, 0, 0, 0>>),
           ep |-> Arr(<<3, 0, 1, 2, 4, 5, 6, 7, 8, 9, 10, 11>>),
           eo |-> Arr(<<0, 0, 0, 0, 0, 0, 0, 0, 0, 0, 0, 0>>)],
          [cp |-> Arr(<<4, 1, 2, 0, 7, 5, 6, 3>>),
           co |-> Arr(<<2, 0, 0, 1, 1, 0, 0, 2>>),
           ep |-> Arr(<<8, 1, 2, 3, 11, 5, 6, 7, 4, 9, 10, 0>>),
           eo |-> Arr(<<0, 0, 0, 0, 0, 0, 0, 0, 0, 0, 0, 0>>)],
          [cp |-> Arr(<<1, 5, 2, 3, 0, 4, 6, 7>>),
           co |-> Arr(<<1, 2, 0, 0, 2, 1, 0, 0>>),
           ep |-> Arr(<<0, 9, 2, 3, 4, 8, 6, 7, 1, 5, 10, 11>>),
           eo |-> Arr(<<0, 1, 0, 0, 0, 1, 0, 0, 1, 1, 0, 0>>)],
          [cp |-> Arr(<<0, 1, 2, 3, 5, 6, 7, 4>>),
           co |-> Arr(<<0, 0, 0, 0, 0, 0, 0, 0>>),
           ep |-> Arr(<<0, 1, 2, 3, 5, 6, 7, 4, 8, 9, 10, 11>>),
           eo |-> Arr(<<0, 0, 0, 0, 0, 0, 0, 0, 0, 0, 0, 0>>)],
          [cp |-> Arr(<<0, 2, 6, 3, 4, 1, 5, 7>>),
           co |-> Arr(<<0, 1, 2, 0, 0, 2, 1, 0>>),
           ep |-> Arr(<<0, 1, 10, 3, 4, 5, 9, 7, 8, 2, 6, 11>>),
           eo |-> Arr(<<0, 0, 0, 0, 0, 0, 0, 0, 0, 0, 0, 0>>)],
          [cp |-> Arr(<<0, 1, 3, 7, 4, 5, 6, 2>>),
           co |-> Arr(<<0, 0, 1, 2, 0, 0, 0, 1>>),
           ep |-> Arr(<<0, 1, 2, 11, 4, 5, 6, 10, 8, 9, 3, 7>>),
           eo |-> Arr(<<0, 0, 0, 1, 0, 0, 0, 1, 0, 0, 1, 1>>)]>>)

\* this.moves, and this.moveCube as initMoveCubes leaves it: X, X2, X' for
\* each basic move X
kociembaMoves ==
    Arr(<<"U", "U2", "U'", "R", "R2", "R'", "F", "F2", "F'",
          "D", "D2", "D'", "L", "L2", "L'", "B", "B2", "B'">>)

moveCube ==
    [k \in 0 .. 17 |->
        LET m == basicMoves[k \div 3]
            m2 == multiply(m, m)
            m3 == multiply(m2, m)
        IN  IF k % 3 = 0 THEN m ELSE IF k % 3 = 1 THEN m2 ELSE m3]

\* KociembaSolver: the constants of the constructor and of phase1Search
N_TWIST == 2187
maxDepth == 12
unvisited == 15

\* the logicFn of twistMove, flipMove and sliceMove: the table entry for
\* coordinate i and move m
twistMove(i, m) == getTwist(multiply(setTwist(newCubieCube, i), moveCube[m]))
flipMove(i, m) == getFlip(multiply(setFlip(newCubieCube, i), moveCube[m]))
sliceMove(i, m) == getSlice(multiply(setSlice(newCubieCube, i), moveCube[m]))

\* the rows of sliceMove the search and the pruning table read
sliceMoveRow(i) == [m \in 0 .. 17 |-> sliceMove(i, m)] @@ <<>>

\* initPruningTable: the breadth-first levels from index 0, one level for
\* each round of the while loop, as far as the search depth explored here.
\* levels[d + 1] holds the indexes that setPruning sets to d.
RECURSIVE initPruningTable(_, _, _)
initPruningTable(levels, visited, depth) ==
    IF depth >= MaxDepth THEN levels
    ELSE LET nextLevel ==
                 {sliceMove(packed \div N_TWIST, m) * N_TWIST
                      + twistMove(packed % N_TWIST, m) :
                  packed \in levels[depth + 1], m \in 0 .. 17} \ visited
         IN  initPruningTable(Append(levels, nextLevel), visited \cup nextLevel,
                              depth + 1)

sliceTwistPrun == initPruningTable(<<{0}>>, {0}, 0)

\* the slice coordinates idx1 that the breadth-first search can ever reach
\* from index 0: an index with another idx1 stays unvisited
RECURSIVE slicesReached(_, _)
slicesReached(seen, currentLevel) ==
    IF currentLevel = {} THEN seen
    ELSE LET nextLevel ==
                 {sliceMove(idx1, m) : idx1 \in currentLevel, m \in 0 .. 17} \ seen
         IN  slicesReached(seen \cup nextLevel, nextLevel)

visitedSlices == slicesReached({0}, {0})

\* getPruning(this.sliceTwistPrun, index): the values the entry can hold.
\* An index of a computed level holds its depth, an index whose slice the
\* search from 0 never reaches holds 0xF, and an index beyond the computed
\* levels holds a deeper level or 0xF.
getPruning(index) ==
    IF \E d \in 1 .. Len(sliceTwistPrun) : index \in sliceTwistPrun[d]
    THEN {d - 1 : d \in {e \in 1 .. Len(sliceTwistPrun) : index \in sliceTwistPrun[e]}}
    ELSE IF (index \div N_TWIST) \notin visitedSlices THEN {unvisited}
    ELSE ((MaxDepth + 1) .. maxDepth) \cup {unvisited}

\* search: the test that skips move m after lastMove
skipped(m, lastMove) ==
    /\ lastMove # -1
    /\ \/ m \div 3 = lastMove \div 3
       \/ m \div 3 = 3 /\ lastMove \div 3 = 0
       \/ m \div 3 = 5 /\ lastMove \div 3 = 2
       \/ m \div 3 = 4 /\ lastMove \div 3 = 1

\* search: the first m from `from` on that the for loop does not skip, and 18
\* when the loop is over
RECURSIVE nextMove(_, _)
nextMove(from, lastMove) ==
    IF from >= 18 THEN 18
    ELSE IF skipped(from, lastMove) THEN nextMove(from + 1, lastMove)
    ELSE from

\* one activation of search(twist, flip, slice, g, bound, lastMove); m is the
\* loop variable, and -1 before the body has run
searchCall(twist, flip, coord, g, lastMove) ==
    [twist |-> twist, flip |-> flip, slice |-> coord, g |-> g,
     lastMove |-> lastMove, m |-> -1]

\* new KociembaSolver(), with the locals of phase1Search and the activations
\* of search that are on the call stack
newKociembaSolver ==
    [solutionStack |-> Arr(<<>>), depth |-> -1, calls |-> <<>>, found |-> FALSE]

\* toCubieCube(facelets)
toCubieCube(facelets) == newCubieCube

\* phase1Search: one round of the for loop up to the call of search
phase1Iteration(this, cubie, depth) ==
    [this EXCEPT !.solutionStack = Arr(<<>>),
                 !.depth = depth,
                 !.calls = <<searchCall(getTwist(cubie), getFlip(cubie),
                                        getSlice(cubie), 0, -1)>>]

\* search returns false to its caller: the caller pops the move and goes on
\* with its loop; phase1Search gets the false of the first activation
searchReturnsFalse(this) ==
    IF Len(this.calls) = 1 THEN [this EXCEPT !.calls = <<>>]
    ELSE LET caller == this.calls[Len(this.calls) - 1]
         IN  [this EXCEPT !.solutionStack = pop(this.solutionStack),
                          !.calls = Append(SubSeq(this.calls, 1, Len(this.calls) - 2),
                                           [caller EXCEPT !.m = nextMove(caller.m + 1,
                                                                         caller.lastMove)])]

\* search returns true: every caller returns true, and phase1Search has found
searchReturnsTrue(this) == [this EXCEPT !.calls = <<>>, !.found = TRUE]

\* search from its first line to the for loop, for the pruning value dist
searchBody(this, dist) ==
    LET top == this.calls[Len(this.calls)]
        h == IF dist = unvisited THEN 0 ELSE dist
    IN  IF top.g + h > this.depth THEN searchReturnsFalse(this)
        ELSE IF top.twist = 0 /\ top.flip = 0 /\ top.slice = 0
        THEN searchReturnsTrue(this)
        ELSE [this EXCEPT !.calls[Len(this.calls)].m = nextMove(0, top.lastMove)]

\* search: one round of the for loop up to the recursive call
searchPush(this) ==
    LET top == this.calls[Len(this.calls)]
    IN  [this EXCEPT !.solutionStack = push(this.solutionStack, kociembaMoves[top.m]),
                     !.calls = Append(this.calls,
                                      searchCall(twistMove(top.twist, top.m),
                                                 flipMove(top.flip, top.m),
                                                 sliceMove(top.slice, top.m),
                                                 top.g + 1, top.m))]

\* KociembaSolver.solve: the result made of what phase1Search returns
kociembaResult(phase1) ==
    IF phase1 # Null /\ phase1 # ""
    THEN [success |-> FALSE, solution |-> phase1, error |-> "Phase 2 not implemented"]
    ELSE [success |-> FALSE, solution |-> Null, error |-> "Phase 1 search failed"]

(***************************************************************************)
(* RubiksCubeApp: the solver panel                                         *)
(***************************************************************************)
\* the app as its constructor leaves it, with the text that updateSolverStatus
\* wrote last, without its emoji (a toast is shown and forgotten, and is no
\* part of it). shownBefore is a history variable,
\* not a field of the app: for each entry of paintHistory, the color its
\* sticker showed when handlePaint was about to paint it.
newApp ==
    [currentTab |-> "play",
     currentSolution |-> Arr(<<>>),
     currentPhases |-> Arr(<<>>),
     solutionIndex |-> 0,
     paintHistory |-> Arr(<<>>),
     solverStatus |-> "",
     shownBefore |-> Arr(<<>>)]

\* enablePaintMode(this.getSelectedColor(), callback): the active swatch is
\* the one of the color selected last
enablePaintMode(this) == [this EXCEPT !.paintMode = TRUE]

disablePaintMode(this) == [this EXCEPT !.paintMode = FALSE]

\* resetCube(unpainted) of the renderer
resetCube(this, unpainted) == [this EXCEPT !.paintState = buildCube(unpainted)]

\* clearSolution()
clearSolution(this) ==
    [this EXCEPT !.currentSolution = Arr(<<>>), !.currentPhases = Arr(<<>>),
                 !.solutionIndex = 0]

\* switchTab(tabName): the app, the renderer and the cube it leaves
switchTab(this, r, c, tabName) ==
    IF tabName = "solver"
    THEN [this |-> [this EXCEPT !.currentTab = tabName,
                                !.paintHistory = Arr(<<>>),
                                !.shownBefore = Arr(<<>>),
                                !.solverStatus =
                                    "Click stickers on the cube to paint your current state"],
          renderer |-> enablePaintMode(resetCube(r, TRUE)),
          cube |-> c]
    ELSE IF this.currentTab = "solver"
    THEN [this |-> [this EXCEPT !.currentTab = tabName],
          renderer |-> resetCube(disablePaintMode(r), FALSE),
          cube |-> reset]
    ELSE [this |-> [this EXCEPT !.currentTab = tabName],
          renderer |-> disablePaintMode(r),
          cube |-> c]

\* the click handler of reset-input-btn
resetInput(this, r) ==
    [this |-> clearSolution([this EXCEPT !.paintHistory = Arr(<<>>),
                                         !.shownBefore = Arr(<<>>),
                                         !.solverStatus =
                                             "Cube reset. Paint your cube state."]),
     renderer |-> enablePaintMode(resetCube(r, TRUE))]

\* a variant of onPaintSticker that keeps every click in the history
onPaintStickerKeepingEveryClick(this, face, index, color, error, shown) ==
    [this EXCEPT !.paintHistory =
                     push(this.paintHistory,
                          [face |-> face, index |-> index, color |-> color,
                           previousColor |-> "U"]),
                 !.shownBefore = push(this.shownBefore, shown)]

\* onPaintSticker(face, index, color, error); shown is the color the sticker
\* showed before handlePaint painted it
onPaintSticker(this, face, index, color, error, shown) ==
    IF error # Null THEN this
    ELSE IF color # Null
    THEN [this EXCEPT !.paintHistory =
                          push(this.paintHistory,
                               [face |-> face, index |-> index, color |-> color,
                                previousColor |-> "U"]),
                      !.shownBefore = push(this.shownBefore, shown)]
    ELSE this

\* onClick: handlePaint() when in paint mode, and the callback it calls
onClick(this, r, cubie, faceIndex) ==
    LET painted == handlePaint(r, cubie, faceIndex)
        cb == painted.callback
    IN  [renderer |-> painted.this,
         callback |-> cb,
         this |-> IF cb = Undefined THEN this
                  ELSE onPaintSticker(this, cb[1], cb[2], cb[3], cb[4],
                                      r.paintState[cb[1]][cb[2]])]

\* undoPaint(): the app and the renderer it leaves
undoPaint(this, r) ==
    IF length(this.paintHistory) = 0
    THEN [this |-> this, renderer |-> r]
    ELSE LET lastPaint == this.paintHistory[length(this.paintHistory) - 1]
         IN  [this |-> [this EXCEPT !.paintHistory = pop(this.paintHistory),
                                    !.shownBefore = pop(this.shownBefore)],
              renderer |-> [r EXCEPT !.paintState[lastPaint.face][lastPaint.index] =
                                         lastPaint.previousColor]]

\* solveCube() from the result of this.solver.solve on, when the result has
\* success and a solution that is not empty
showResult(this, result) ==
    [this EXCEPT !.currentSolution = result.solution,
                 !.currentPhases = result.phases,
                 !.solutionIndex = 0,
                 !.solverStatus = "Solution found"]

\* playSolution: the place (phaseIdx, i) of the first move that its two for
\* loops reach from (phaseIdx, i) on, and phaseIdx = length(currentPhases)
\* when the loops are over
RECURSIVE playFrom(_, _, _)
playFrom(this, phaseIdx, i) ==
    IF phaseIdx >= length(this.currentPhases) THEN [phaseIdx |-> phaseIdx, i |-> 0]
    ELSE IF i < length(this.currentPhases[phaseIdx].moves)
    THEN [phaseIdx |-> phaseIdx, i |-> i]
    ELSE playFrom(this, phaseIdx + 1, 0)

\* playSolution after its loops
playSolutionEnd(this) ==
    [this EXCEPT !.solutionIndex = length(this.currentSolution),
                 !.solverStatus = "Solution complete!"]

\* stepSolution after its await
stepSolutionAfterAwait(this) ==
    [this EXCEPT !.solutionIndex = this.solutionIndex + 1,
                 !.solverStatus =
                     IF length(this.currentSolution) - (this.solutionIndex + 1) > 0
                     THEN ToString(length(this.currentSolution) - (this.solutionIndex + 1))
                              \o " moves remaining"
                     ELSE "Solution complete!"]


\* the handlers of the solver panel that wait, in the order in which they
\* called renderer.animateMove last: the place of the first one whose
\* animation has not ended, and 0 when there is none
RECURSIVE firstAnimating(_, _)
firstAnimating(waiting, k) ==
    IF k > Len(waiting) THEN 0
    ELSE IF waiting[k].waits = "animation" THEN k
    ELSE firstAnimating(waiting, k + 1)

without(waiting, k) == SubSeq(waiting, 1, k - 1) \o SubSeq(waiting, k + 1, Len(waiting))

\* steps 1 to 6 of solve: the error the validation pipeline reports for
\* paintState (a returned error or a thrown one), Undefined when it reports none
validationError(this, paintState) ==
    LET validation == validateState(paintState)
    IN  IF validation.throws THEN validation.message
        ELSE IF ~validation.value.valid THEN validation.value.error
        ELSE
    LET facelets == toFaceletString(paintState, mapColorsToFaces(paintState))
    IN  IF facelets.throws THEN facelets.message
        ELSE
    LET cubies == faceletsToCubies(this, facelets.value)
    IN  IF cubies.throws THEN cubies.message
        ELSE IF cubies.value.error # Undefined THEN cubies.value.error
        ELSE
    LET invariantCheck == validateInvariants(cubies.value)
    IN  IF ~invariantCheck.valid THEN invariantCheck.error
        ELSE Undefined

(***************************************************************************)
(* Inputs                                                                  *)
(***************************************************************************)
\* M followed by its inverse, a clockwise quarter turn four times, and
\* R U R' U' k times over, as move strings for applyMoves
Pair(m) == m \o " " \o getInverseMove(m)
Four(f) == f \o " " \o f \o " " \o f \o " " \o f

RECURSIVE Repeat(_, _)
Repeat(str, k) == IF k <= 1 THEN str ELSE str \o " " \o Repeat(str, k - 1)

MoveStrings ==
    {Pair(m) : m \in Moves}
        \cup {Four(FaceLetters[f]) : f \in 1 .. 6}
        \cup {Repeat("R U R' U'", k) : k \in 1 .. MaxRepeats}

\* Painted states handed to solve, made from a state st of the cube: a face
\* missing, a sticker repainted, a face one sticker short with the sticker on
\* another face instead, a corner twisted in place, and the side stickers of
\* each bottom corner exchanged.
RemoveFace(st, face) == [f \in (DOMAIN st) \ {face} |-> st[f]]
Repaint(st, face, i, color) == [st EXCEPT ![face][i] = color]
MoveSticker(st, from, to) ==
    [st EXCEPT ![from] = pop(st[from]),
               ![to] = push(st[to], st[from][length(st[from]) - 1])]
TwistCorner(st) ==
    [st EXCEPT !.U[8] = st.F[2], !.R[0] = st.U[8], !.F[2] = st.R[0]]
MirrorBottomCorners(st) ==
    [st EXCEPT !.R[6] = st.F[8], !.F[8] = st.R[6],
               !.F[6] = st.L[8], !.L[8] = st.F[6],
               !.L[6] = st.B[8], !.B[8] = st.L[6],
               !.B[6] = st.R[8], !.R[8] = st.B[6]]

\* the edges UF and UR exchanged as whole pieces, the edge UF flipped in place,
\* and a corner twisted together with an edge flipped
SwapEdges(st) ==
    [st EXCEPT !.U[7] = st.U[5], !.F[1] = st.R[1],
               !.U[5] = st.U[7], !.R[1] = st.F[1]]
FlipEdge(st) == [st EXCEPT !.U[7] = st.F[1], !.F[1] = st.U[7]]
TwistAndFlip(st) == FlipEdge(TwistCorner(st))
\* a corner sticker exchanged with an edge sticker: every color still counts 9
SwapCornerAndEdgeSticker(st) == [st EXCEPT !.U[8] = st.F[1], !.F[1] = st.U[8]]

SolveInputs(st) ==
    {st,
     SwapEdges(st),
     FlipEdge(st),
     TwistAndFlip(st),
     SwapCornerAndEdgeSticker(st),
     RemoveFace(st, "B"),
     Repaint(st, "U", 4, st.D[4]),
     Repaint(st, "U", 8, "X"),
     Repaint(st, "U", 8, st.D[4]),
     MoveSticker(st, "U", "R"),
     TwistCorner(st),
     MirrorBottomCorners(st)}

\* the move lists of at most MaxLen tokens
MoveLists == UNION {[0 .. (n - 1) -> Moves] : n \in 0 .. MaxLen}

\* a cube whose 54 stickers all differ, as setState accepts it
labelled ==
    [state |-> [f \in {"U", "D", "F", "B", "L", "R"} |->
                    [i \in 0 .. 8 |-> f \o ToString(i)]],
     moveHistory |-> Arr(<<>>)]

\* the cubes a move list is replayed on
TestCubes == {reset, applyMoves(reset, "R U", FALSE), labelled}

\* no handler has started
noHandlers == <<>>

(***************************************************************************)
(* The state machine                                                       *)
(***************************************************************************)
\* the 54 stickers after moveList is replayed on cube c with applyMove
replay(c, moveList) ==
    forEachApplyMove(c, moveList, 0, length(moveList), FALSE).state

\* a call that reads the cube, with the cube as the call found it
Call(op, arg) == [op |-> op, arg |-> arg, before |-> cube]

Init ==
    /\ cube = reset
    /\ solver = newSolver
    /\ call = [op |-> "new", arg |-> Undefined, before |-> Undefined]
    /\ ret = Return(Undefined)
    /\ moves = Arr(<<>>)
    /\ optimized = Arr(<<>>)
    /\ paint = Undefined
    /\ newCube = noCube
    /\ renderer = newRenderer
    /\ controls = newControls
    /\ cc = newCubieCube
    /\ kociemba = newKociembaSolver
    /\ app = newApp
    /\ handlers = noHandlers

ApplyMove(m) ==
    /\ length(cube.moveHistory) < MaxMoves
    /\ cube' = applyMove(cube, m, TRUE)
    /\ newCube' = inPlace(newCube, cube')
    /\ call' = Call("applyMove", m)
    /\ ret' = Return(Undefined)
    /\ UNCHANGED <<solver, moves, optimized, paint, renderer, controls, cc, kociemba, app, handlers>>

ApplyMoves(str) ==
    /\ length(cube.moveHistory) <= MaxMoves
    /\ cube' = applyMoves(cube, str, TRUE)
    /\ newCube' = inPlace(newCube, cube')
    /\ call' = Call("applyMoves", str)
    /\ ret' = Return(Undefined)
    /\ UNCHANGED <<solver, moves, optimized, paint, renderer, controls, cc, kociemba, app, handlers>>

Reset ==
    /\ cube' = reset
    /\ newCube' = afterReset(newCube)
    /\ call' = [op |-> "reset", arg |-> Undefined, before |-> Undefined]
    /\ ret' = Return(Undefined)
    /\ UNCHANGED <<solver, moves, optimized, paint, renderer, controls, cc, kociemba, app, handlers>>

Undo ==
    \E result \in {undo(cube)} :
        /\ cube' = result.cube
        /\ newCube' = inPlace(newCube, cube')
        /\ call' = Call("undo", Undefined)
        /\ ret' = Return(result.ret)
        /\ UNCHANGED <<solver, moves, optimized, paint, renderer, controls, cc, kociemba, app, handlers>>

\* the random draws of one scramble(n): the face draws, n of them and at most
\* MaxRedraws more, and the n modifier draws
ScrambleDraws(n) ==
    {[face |-> f, mod |-> m] :
        f \in UNION {[0 .. (k - 1) -> 0 .. 5] : k \in n .. (n + MaxRedraws)},
        m \in [0 .. (n - 1) -> 0 .. 2]}

\* scramble(n) on draws that it uses up, none left over
Scramble(n, draws) ==
    \E result \in {scramble(cube, n, draws.face, draws.mod)} :
        /\ result.returned
        /\ result.drawn = length(draws.face)
        /\ cube' = result.cube
        /\ newCube' = inPlace(newCube, cube')
        /\ call' = Call("scramble", [length |-> n, draws |-> draws])
        /\ ret' = Return(result.ret)
        /\ UNCHANGED <<solver, moves, optimized, paint, renderer, controls, cc, kociemba, app, handlers>>

Clone ==
    /\ newCube' = clone(cube)
    /\ call' = Call("clone", Undefined)
    /\ ret' = Return(Undefined)
    /\ UNCHANGED <<cube, solver, moves, optimized, paint, renderer, controls, cc, kociemba, app, handlers>>

\* newCube as a cube, and newCube with the state and history of a cube
asCube(c) == [state |-> c.state, moveHistory |-> c.moveHistory]
withCube(other, c) == [other EXCEPT !.state = c.state, !.moveHistory = c.moveHistory]

\* the cube this after a method has changed newCube in place
thisInPlace(this, other) ==
    [state |-> IF "state" \in other.shared THEN other.state ELSE this.state,
     moveHistory |-> IF "moveHistory" \in other.shared THEN other.moveHistory
                     ELSE this.moveHistory]

\* the same four methods called on newCube
NewCubeApplyMove(m) ==
    /\ newCube.made
    /\ length(newCube.moveHistory) < MaxSolveMoves
    /\ newCube' = withCube(newCube, applyMove(asCube(newCube), m, TRUE))
    /\ cube' = thisInPlace(cube, newCube')
    /\ call' = Call("newCube.applyMove", m)
    /\ ret' = Return(Undefined)
    /\ UNCHANGED <<solver, moves, optimized, paint, renderer, controls, cc, kociemba, app, handlers>>

NewCubeReset ==
    /\ newCube.made
    /\ newCube' = afterReset(withCube(newCube, reset))
    /\ call' = Call("newCube.reset", Undefined)
    /\ ret' = Return(Undefined)
    /\ UNCHANGED <<cube, solver, moves, optimized, paint, renderer, controls, cc, kociemba, app, handlers>>

NewCubeUndo ==
    /\ newCube.made
    /\ \E result \in {undo(asCube(newCube))} :
        /\ newCube' = withCube(newCube, result.cube)
        /\ cube' = thisInPlace(cube, newCube')
        /\ call' = Call("newCube.undo", Undefined)
        /\ ret' = Return(result.ret)
        /\ UNCHANGED <<solver, moves, optimized, paint, renderer, controls, cc, kociemba, app, handlers>>

NewCubeScramble(n, draws) ==
    /\ newCube.made
    /\ \E result \in {scramble(asCube(newCube), n, draws.face, draws.mod)} :
        /\ result.returned
        /\ result.drawn = length(draws.face)
        /\ newCube' = withCube(newCube, result.cube)
        /\ cube' = thisInPlace(cube, newCube')
        /\ call' = Call("newCube.scramble", [length |-> n, draws |-> draws])
        /\ ret' = Return(result.ret)
        /\ UNCHANGED <<solver, moves, optimized, paint, renderer, controls, cc, kociemba, app, handlers>>

Solve(paintState) ==
    \E result \in {solve(solver, paintState)} :
        /\ solver' = result.this
        /\ call' = Call("solve", paintState)
        /\ ret' = result.out
        /\ paint' = result.paintState
        /\ UNCHANGED <<cube, moves, optimized, newCube, renderer, controls, cc, kociemba, app, handlers>>

\* solve from step 7 on, on the facelet string of what the cube shows: what
\* solve goes on to do with an input that steps 1 to 6 have let through
SolveLayers ==
    \E result \in {solveAndOptimize(solver, cube.state,
                       toFaceletString(cube.state, mapColorsToFaces(cube.state)).value)} :
        /\ solver' = result.this
        /\ call' = Call("solveLayers", cube.state)
        /\ ret' = result.out
        /\ paint' = result.paintState
        /\ UNCHANGED <<cube, moves, optimized, newCube, renderer, controls, cc, kociemba, app, handlers>>

\* the cube with its move history, and the solver called on what the cube shows
Next ==
    \/ \E m \in Moves : length(cube.moveHistory) < MaxSolveMoves /\ ApplyMove(m)
    \/ Reset
    \/ \E paintState \in SolveInputs(cube.state) : Solve(paintState)

Spec == Init /\ [][Next]_vars

\* the cube with its move history, and the layer solver on what the cube shows
NextLayers ==
    \/ \E m \in Moves : length(cube.moveHistory) < MaxSolveMoves /\ ApplyMove(m)
    \/ Reset
    \/ SolveLayers

SpecLayers == Init /\ [][NextLayers]_vars

\* strings of 54 face letters that no cube shows, made from one a cube shows
replaceAt(facelets, i, symbol) ==
    SubSeq(facelets, 1, i) \o symbol \o SubSeq(facelets, i + 2, Len(facelets))

swapAt(facelets, i, j) ==
    replaceAt(replaceAt(facelets, i, charAt(facelets, j)), j, charAt(facelets, i))

RECURSIVE sameSymbol(_, _)
sameSymbol(symbol, n) == IF n = 0 THEN "" ELSE symbol \o sameSymbol(symbol, n - 1)

\* the string itself, one symbol 54 times, a second "U" center on D, and the
\* edge at U7 and F1 flipped
AnyFacelets(facelets) ==
    {facelets, sameSymbol("U", 54), replaceAt(facelets, 31, "U"), swapAt(facelets, 7, 19)}

\* solveCube called on a string of 54 face letters
SolveCube(facelets) ==
    \E result \in {solveCube(solver, facelets)} :
        /\ solver' = result.this
        /\ call' = Call("solveCube", facelets)
        /\ ret' = Return(result.value)
        /\ UNCHANGED <<cube, moves, optimized, paint, newCube, renderer, controls, cc, kociemba, app, handlers>>

\* the layer solver on strings that need not come from a cube
NextAnyFacelets ==
    \/ \E m \in Moves : length(cube.moveHistory) < MaxSolveMoves /\ ApplyMove(m)
    \/ \E facelets \in AnyFacelets(toFaceletString(cube.state,
                                        mapColorsToFaces(cube.state)).value) :
           SolveCube(facelets)

SpecAnyFacelets == Init /\ [][NextAnyFacelets]_vars

\* the cube alone, with whole move strings
NextMoves ==
    \/ \E m \in Moves : ApplyMove(m)
    \/ \E str \in MoveStrings : ApplyMoves(str)
    \/ Reset

SpecMoves == Init /\ [][NextMoves]_vars

\* paint mode: the cube is blanked, a color is picked, a sticker is clicked
ResetCube(unpainted) ==
    /\ renderer' = [renderer EXCEPT !.paintState = buildCube(unpainted)]
    /\ call' = Call("resetCube", unpainted)
    /\ ret' = Return(Undefined)
    /\ UNCHANGED <<cube, solver, moves, optimized, paint, newCube, controls, cc, kociemba, app, handlers>>

SetSelectedColor(color) ==
    /\ renderer' = [renderer EXCEPT !.selectedColor = color]
    /\ call' = Call("setSelectedColor", color)
    /\ ret' = Return(Undefined)
    /\ UNCHANGED <<cube, solver, moves, optimized, paint, newCube, controls, cc, kociemba, app, handlers>>

HandlePaint(cubie, faceIndex) ==
    \E result \in {handlePaint(renderer, cubie, faceIndex)} :
        /\ renderer' = result.this
        /\ call' = Call("handlePaint", [cubie |-> cubie, faceIndex |-> faceIndex])
        /\ ret' = Return(result.callback)
        /\ UNCHANGED <<cube, solver, moves, optimized, paint, newCube, controls, cc, kociemba, app, handlers>>

\* The user paints the stickers in the order of the faces U, R, F, D, L, B and
\* of the indices, toward one of these colorings, and may pick any color on
\* the way: a click that validatePaint turns down leaves the cube as it is.
PaintTargets == {reset.state, TwistCorner(reset.state), applyMove(reset, "R", FALSE).state}

towardATarget(paintState) ==
    \E target \in PaintTargets :
        \A face \in DOMAIN paintState : \A i \in 0 .. 8 :
            paintState[face][i] \in {"U", target[face][i]}

unpainted(paintState) ==
    {n \in 0 .. 53 : paintState[faceOrder[n \div 9]][n % 9] = "U"}

\* the first sticker not yet painted, as getFaceAndIndex names it
nextToPaint(paintState) ==
    {[faceName |-> faceOrder[n \div 9], stickerIndex |-> n % 9] :
        n \in {m \in unpainted(paintState) : \A k \in 0 .. (m - 1) :
                   paintState[faceOrder[k \div 9]][k % 9] # "U"}}

NextPaint ==
    \/ ResetCube(TRUE)
    \/ \E color \in PaintColors : SetSelectedColor(color)
    \/ \E hit \in nextToPaint(renderer.paintState) :
           \E cubie \in Cubies : \E faceIndex \in 0 .. 11 :
               /\ getFaceAndIndex(cubie, faceIndex \div 2) = hit
               /\ towardATarget(handlePaint(renderer, cubie, faceIndex).this.paintState)
               /\ HandlePaint(cubie, faceIndex)

SpecPaint == Init /\ [][NextPaint]_vars

\* a handler of the play controls, run from start to end with no other handler
\* in between; the call keeps what the call before it was and found
Handler(op, arg, result) ==
    /\ length(cube.moveHistory) < MaxHandlers
    /\ cube' = result.cube
    /\ newCube' = inPlace(newCube, cube')
    /\ controls' = result.this
    /\ call' = [op |-> op, arg |-> arg, before |-> [cube |-> cube, controls |-> controls],
                earlier |-> [op |-> call.op, before |-> call.before]]
    /\ ret' = Return(Undefined)
    /\ UNCHANGED <<solver, moves, optimized, paint, renderer, cc, kociemba, app, handlers>>

ExecuteMove(move) ==
    /\ length(controls.userMoveHistory) < MaxMoves
    /\ Handler("Controls.executeMove", move, executeMove(cube, controls, move))

ControlsReset == Handler("Controls.reset", Undefined, controlsReset(cube, controls))
ControlsUndo == Handler("Controls.undo", Undefined, controlsUndo(cube, controls))
ControlsRedo == Handler("Controls.redo", Undefined, controlsRedo(cube, controls))

NextControls ==
    \/ \E move \in Moves : ExecuteMove(move)
    \/ ControlsReset
    \/ ControlsUndo
    \/ ControlsRedo

SpecControls == Init /\ [][NextControls]_vars

\* the cube with scramble
NextScramble ==
    \/ \E m \in Moves : length(cube.moveHistory) < MaxSolveMoves /\ ApplyMove(m)
    \/ Reset
    \/ \E n \in 0 .. MaxScramble : \E draws \in ScrambleDraws(n) :
           length(cube.moveHistory) <= MaxSolveMoves /\ Scramble(n, draws)

SpecScramble == Init /\ [][NextScramble]_vars

\* the cube with applyMove, undo and scramble together
NextCube ==
    \/ \E m \in Moves : ApplyMove(m)
    \/ Reset
    \/ cube.state = replay(reset, cube.moveHistory) /\ Undo
    \/ \E n \in 0 .. MaxScramble : \E draws \in ScrambleDraws(n) :
           length(cube.moveHistory) <= MaxSolveMoves /\ Scramble(n, draws)

SpecCube == Init /\ [][NextCube]_vars

\* the cube with undo, called on a cube that applyMove calls have made
NextUndo ==
    \/ \E m \in Moves : ApplyMove(m)
    \/ Reset
    \/ cube.state = replay(reset, cube.moveHistory) /\ Undo

SpecUndo == Init /\ [][NextUndo]_vars

\* a cube and its clone, each at most MaxSolveMoves moves long
NextClone ==
    \/ \E m \in Moves : length(cube.moveHistory) < MaxSolveMoves /\ ApplyMove(m)
    \/ Reset
    \/ Undo
    \/ \E n \in 0 .. MaxSolveMoves : \E draws \in ScrambleDraws(n) :
           length(cube.moveHistory) + n <= MaxSolveMoves /\ Scramble(n, draws)
    \/ Clone
    \/ \E m \in Moves : NewCubeApplyMove(m)
    \/ NewCubeReset
    \/ NewCubeUndo
    \/ \E n \in 0 .. MaxSolveMoves : \E draws \in ScrambleDraws(n) :
           /\ newCube.made
           /\ length(newCube.moveHistory) + n <= MaxSolveMoves
           /\ NewCubeScramble(n, draws)

SpecClone == Init /\ [][NextClone]_vars

\* the optimizer on every move list, and a cube to replay the lists on
InitOpt ==
    /\ cube \in TestCubes
    /\ solver = newSolver
    /\ call = [op |-> "new", arg |-> Undefined, before |-> Undefined]
    /\ ret = Return(Undefined)
    /\ moves \in MoveLists
    /\ optimized = Arr(<<>>)
    /\ paint = Undefined
    /\ newCube = noCube
    /\ renderer = newRenderer
    /\ controls = newControls
    /\ cc = newCubieCube
    /\ kociemba = newKociembaSolver
    /\ app = newApp
    /\ handlers = noHandlers

OptimizeMoves ==
    /\ call.op = "new"
    /\ optimized' = optimizeMoves(moves)
    /\ call' = Call("optimizeMoves", moves)
    /\ ret' = Return(optimizeMoves(moves))
    /\ UNCHANGED <<cube, solver, moves, paint, newCube, renderer, controls, cc, kociemba, app, handlers>>

\* optimizeMoves called again on what it returned
Reoptimize ==
    /\ call.op = "optimizeMoves"
    /\ moves' = optimized
    /\ optimized' = optimizeMoves(optimized)
    /\ call' = Call("optimizeMoves", optimized)
    /\ ret' = Return(optimizeMoves(optimized))
    /\ UNCHANGED <<cube, solver, paint, newCube, renderer, controls, cc, kociemba, app, handlers>>

NextOpt == OptimizeMoves \/ Reoptimize

SpecOpt == InitOpt /\ [][NextOpt]_vars

\* calculateParity on its own, called on the permutations of 0 .. n - 1
insertAt(p, k, x) ==
    [i \in 0 .. length(p) |-> IF i < k THEN p[i] ELSE IF i = k THEN x ELSE p[i - 1]]

RECURSIVE PermutationsOf(_)
PermutationsOf(n) ==
    IF n = 0 THEN {Arr(<<>>)}
    ELSE {insertAt(p, k, n - 1) : p \in PermutationsOf(n - 1), k \in 0 .. (n - 1)}

InitParity ==
    /\ cube = reset
    /\ solver = newSolver
    /\ call = [op |-> "new", arg |-> Undefined, before |-> Undefined]
    /\ ret = Return(Undefined)
    /\ moves \in UNION {PermutationsOf(n) : n \in 0 .. MaxPerm}
    /\ optimized = Arr(<<>>)
    /\ paint = Undefined
    /\ newCube = noCube
    /\ renderer = newRenderer
    /\ controls = newControls
    /\ cc = newCubieCube
    /\ kociemba = newKociembaSolver
    /\ app = newApp
    /\ handlers = noHandlers

CalculateParity ==
    \E result \in {calculateParityCall(moves)} :
        /\ call.op = "new"
        /\ moves' = result.arr
        /\ call' = Call("calculateParity", moves)
        /\ ret' = Return(result.value)
        /\ UNCHANGED <<cube, solver, optimized, paint, newCube, renderer, controls, cc, kociemba, app, handlers>>

NextParity == CalculateParity

SpecParity == InitParity /\ [][NextParity]_vars

\* the cubie engine on its own: a cubie multiplied by the 18 move cubies, and
\* a new cubie given a slice coordinate as initPhase1Tables does
Multiply(m) ==
    /\ call.op \in {"new", "multiply"}
    /\ length(moves) < MaxTurns
    /\ cc' = multiply(cc, moveCube[m])
    /\ moves' = push(moves, kociembaMoves[m])
    /\ call' = [op |-> "multiply", arg |-> m, before |-> cc]
    /\ ret' = Return(multiply(cc, moveCube[m]))
    /\ UNCHANGED <<cube, solver, optimized, paint, newCube, renderer, controls,
                   kociemba, app, handlers>>

SetSlice(coord) ==
    /\ call.op = "new"
    /\ cc' = setSlice(newCubieCube, coord)
    /\ moves' = Arr(<<>>)
    /\ call' = [op |-> "setSlice", arg |-> coord, before |-> newCubieCube]
    /\ ret' = Return(Undefined)
    /\ UNCHANGED <<cube, solver, optimized, paint, newCube, renderer, controls,
                   kociemba, app, handlers>>

NextCubie ==
    \/ \E m \in 0 .. 17 : Multiply(m)
    \/ \E coord \in 0 .. 494 : SetSlice(coord)

SpecCubie == Init /\ [][NextCubie]_vars

(***************************************************************************)
(* Properties                                                              *)
(***************************************************************************)
\* solve was called on the state the cube shows
SolvedTheCube == call.op = "solve" /\ DOMAIN call.arg = DOMAIN cube.state /\ call.arg = cube.state

\* C1: for every state reached from the solved cube by applyMove calls, solve
\* on that state returns success = true, and its solution replayed on the
\* state with applyMove leaves a solved cube.
SolveSolvesReachableStates ==
    SolvedTheCube =>
        /\ ~ret.throws
        /\ ret.value.success
        /\ isSolved(replay(cube, ret.value.solution))

\* C2: every state reached from the solved cube by applyMove is reported valid
\* by validateState, faceletsToCubies and validateInvariants: no stage gives an
\* error for it.
ReachableStatesAreValid ==
    SolvedTheCube => validationError(solver, call.arg) = Undefined

\* C3: for the solved cube isSolved() is true, validation reports no error and
\* solve returns success = true with an empty solution.
SolvedCubeNeedsNoMoves ==
    (SolvedTheCube /\ cube.state = reset.state) =>
        /\ isSolved(cube.state)
        /\ validationError(solver, call.arg) = Undefined
        /\ ~ret.throws
        /\ ret.value.success
        /\ length(ret.value.solution) = 0

\* C4: on every sticker state, each of the 18 moves followed by its inverse
\* (getInverseMove) restores all 54 stickers.
InverseMoveRestores ==
    (call.op = "applyMoves" /\ \E m \in Moves : call.arg = Pair(m)) =>
        cube.state = call.before.state

\* C5: on every sticker state, the clockwise quarter turn of each face applied
\* four times returns all 54 stickers to where they were.
FourQuarterTurnsRestore ==
    (call.op = "applyMoves" /\ \E f \in 1 .. 6 : call.arg = Four(FaceLetters[f])) =>
        cube.state = call.before.state

\* C6: from the solved cube, R U R' U' applied k times with applyMoves leaves
\* the cube solved when k is 6 and unsolved when k is less: the sequence has
\* order 6.
SexyMoveHasOrderSix ==
    \A k \in 1 .. MaxRepeats :
        (/\ call.op = "applyMoves"
         /\ call.arg = Repeat("R U R' U'", k)
         /\ isSolved(call.before.state)) =>
            (isSolved(cube.state) <=> k % 6 = 0)

SixRepetitionsSolve ==
    /\ call.op = "applyMoves"
    /\ call.arg = Repeat("R U R' U'", 6)
    /\ length(call.before.moveHistory) = 0
    /\ isSolved(cube.state)
    /\ length(cube.moveHistory) = 24

OptimizedReplaysTheSame ==
    call.op = "optimizeMoves" => replay(cube, optimized) = replay(cube, moves)

\* no two neighbours of moveList turn the same face
NoAdjacentSameFace(moveList) ==
    \A i \in 0 .. (length(moveList) - 2) : at(moveList[i], 0) # at(moveList[i + 1], 0)

\* C9: for every move list m, optimizeMoves(m) ends, its output has no two
\* adjacent moves on the same face and is no longer than m, and optimizeMoves
\* of the output is the output again.
OptimizedIsReducedAndStable ==
    call.op = "optimizeMoves" =>
        /\ length(optimized) <= length(moves)
        /\ NoAdjacentSameFace(optimized)
        /\ optimizeMoves(optimized) = optimized

ThreeTurnsBecomeOne ==
    /\ call.op = "optimizeMoves"
    /\ moves = Arr(<<"R", "R", "R">>)
    /\ optimized = Arr(<<"R'">>)

\* C10: solve never throws: for every input it returns an object with a
\* boolean success, and when success is false the solution is empty and error
\* is a non-empty string.
SolveReturnsAResult ==
    call.op = "solve" =>
        /\ ~ret.throws
        /\ ret.value.success \in BOOLEAN
        /\ ~ret.value.success =>
               /\ length(ret.value.solution) = 0
               /\ isString(ret.value.error)
               /\ ret.value.error \notin {"", Null, Undefined}

MissingFaceIsCaught ==
    /\ call.op = "solve"
    /\ "B" \notin DOMAIN call.arg
    /\ ~ret.throws
    /\ ~ret.value.success
    /\ ret.value.error = "Solver error: Cannot read properties of undefined (reading '4')"

\* KociembaSolver.solve(facelets) step by step: the call of phase1Search, the
\* rounds of its depth loop, and the activations of search
KociembaSolve(facelets) ==
    /\ call.op = "new"
    /\ cc' = toCubieCube(facelets)
    /\ kociemba' = phase1Iteration(kociemba, toCubieCube(facelets), 0)
    /\ call' = [op |-> "phase1Search", arg |-> facelets, before |-> cc]
    /\ ret' = Return(Undefined)
    /\ UNCHANGED <<cube, solver, moves, optimized, paint, newCube, renderer, controls, app, handlers>>

Phase1NextDepth ==
    /\ call.op = "phase1Search"
    /\ kociemba.calls = <<>>
    /\ ~kociemba.found
    /\ kociemba.depth < MaxDepth
    /\ IF kociemba.depth + 1 <= maxDepth
       THEN /\ kociemba' = phase1Iteration(kociemba, cc, kociemba.depth + 1)
            /\ UNCHANGED ret
       ELSE /\ ret' = Return(kociembaResult(Null))
            /\ kociemba' = [kociemba EXCEPT !.depth = kociemba.depth + 1]
    /\ UNCHANGED <<cube, solver, call, moves, optimized, paint, newCube, renderer, controls, cc, app, handlers>>

SearchBody ==
    /\ call.op = "phase1Search"
    /\ kociemba.calls # <<>>
    /\ kociemba.calls[Len(kociemba.calls)].m = -1
    /\ \E dist \in getPruning(kociemba.calls[Len(kociemba.calls)].slice * N_TWIST
                                 + kociemba.calls[Len(kociemba.calls)].twist) :
           \E result \in {searchBody(kociemba, dist)} :
              /\ kociemba' = result
              /\ ret' = IF result.found
                        THEN Return(kociembaResult(join(result.solutionStack)))
                        ELSE ret
    /\ UNCHANGED <<cube, solver, call, moves, optimized, paint, newCube, renderer, controls, cc, app, handlers>>

SearchLoop ==
    /\ call.op = "phase1Search"
    /\ kociemba.calls # <<>>
    /\ kociemba.calls[Len(kociemba.calls)].m >= 0
    /\ kociemba' = IF kociemba.calls[Len(kociemba.calls)].m < 18
                   THEN searchPush(kociemba)
                   ELSE searchReturnsFalse(kociemba)
    /\ UNCHANGED <<cube, solver, call, ret, moves, optimized, paint, newCube, renderer, controls, cc, app, handlers>>

NextSearch ==
    \/ \E facelets \in {"UUUUUUUUURRRRRRRRRFFFFFFFFFDDDDDDDDDLLLLLLLLLBBBBBBBBB",
                         "LDDBUFURFULUBRFRFRLBBLFDRRBFDDUDFDRLRULULRDUFBLBDBBULF"} :
          KociembaSolve(facelets)
    \/ Phase1NextDepth
    \/ SearchBody
    \/ SearchLoop

SpecSearch == Init /\ [][NextSearch]_vars

\* the solver panel: the tabs, the reset button, the palette, a click on a
\* sticker in paint mode and the undo button
SwitchTab(tabName) ==
    \E result \in {switchTab(app, renderer, cube, tabName)} :
        /\ app' = result.this
        /\ renderer' = result.renderer
        /\ cube' = result.cube
        /\ call' = [op |-> "switchTab", arg |-> tabName, before |-> Undefined]
        /\ ret' = Return(Undefined)
        /\ UNCHANGED <<solver, moves, optimized, paint, newCube, controls, cc, kociemba, handlers>>

ResetInput ==
    /\ app.currentTab = "solver"
    /\ \E result \in {resetInput(app, renderer)} :
           /\ app' = result.this
           /\ renderer' = result.renderer
    /\ call' = [op |-> "resetInput", arg |-> Undefined, before |-> Undefined]
    /\ ret' = Return(Undefined)
    /\ UNCHANGED <<cube, solver, moves, optimized, paint, newCube, controls, cc, kociemba, handlers>>

SelectColor(color) ==
    /\ renderer' = [renderer EXCEPT !.selectedColor = color]
    /\ call' = [op |-> "setSelectedColor", arg |-> color, before |-> Undefined]
    /\ ret' = Return(Undefined)
    /\ UNCHANGED <<cube, solver, moves, optimized, paint, newCube, controls, cc, kociemba, app, handlers>>

OnClick(cubie, faceIndex) ==
    /\ renderer.paintMode
    /\ \E result \in {onClick(app, renderer, cubie, faceIndex)} :
           /\ app' = result.this
           /\ renderer' = result.renderer
           /\ ret' = Return(result.callback)
    /\ call' = [op |-> "onClick", arg |-> [cubie |-> cubie, faceIndex |-> faceIndex],
                before |-> [paintState |-> renderer.paintState,
                            paintHistory |-> app.paintHistory,
                            selectedColor |-> renderer.selectedColor]]
    /\ UNCHANGED <<cube, solver, moves, optimized, paint, newCube, controls, cc, kociemba, handlers>>

UndoPaint ==
    /\ app.currentTab = "solver"
    /\ \E result \in {undoPaint(app, renderer)} :
           /\ app' = result.this
           /\ renderer' = result.renderer
    /\ call' = [op |-> "undoPaint", arg |-> Undefined,
                before |-> [paintState |-> renderer.paintState,
                            paintHistory |-> app.paintHistory,
                            shownBefore |-> app.shownBefore]]
    /\ ret' = Return(Undefined)
    /\ UNCHANGED <<cube, solver, moves, optimized, paint, newCube, controls, cc, kociemba, handlers>>

\* The user paints toward the cube after R, sticker by sticker in the order
\* of the faces, with any color of the palette (a click that validatePaint
\* turns down changes nothing), and may paint a corner sticker, a center or a
\* sticker that follows a full color once more, with any color, right after
\* painting it.
PaintAppTargets == {applyMove(reset, "R", FALSE).state}

RepaintedStickers ==
    {[faceName |-> "R", stickerIndex |-> 0], [faceName |-> "R", stickerIndex |-> 4],
     [faceName |-> "F", stickerIndex |-> 0]}

towardAnAppTarget(paintState) ==
    \E target \in PaintAppTargets :
        \A face \in DOMAIN paintState : \A i \in 0 .. 8 :
            paintState[face][i] \in {"U", target[face][i]}

\* the entries of paintHistory on a sticker that an earlier entry is on
repaints(paintHistory) ==
    length(paintHistory)
        - Cardinality({<<paintHistory[i].face, paintHistory[i].index>> : i \in DOMAIN paintHistory})

paintedLast(paintHistory) ==
    IF length(paintHistory) = 0 THEN {}
    ELSE {[faceName |-> paintHistory[length(paintHistory) - 1].face,
           stickerIndex |-> paintHistory[length(paintHistory) - 1].index]}

NextPaintApp ==
    \/ \E tabName \in {"play", "solver"} : SwitchTab(tabName)
    \/ ResetInput
    \/ \E color \in PaintColors : SelectColor(color)
    \/ \E hit \in nextToPaint(renderer.paintState) :
           \E cubie \in Cubies : \E faceIndex \in 0 .. 11 :
               /\ getFaceAndIndex(cubie, faceIndex \div 2) = hit
               /\ towardAnAppTarget(handlePaint(renderer, cubie, faceIndex).this.paintState)
               /\ OnClick(cubie, faceIndex)
    \/ \E hit \in paintedLast(app.paintHistory) :
           \E cubie \in Cubies : \E faceIndex \in 0 .. 11 :
               /\ getFaceAndIndex(cubie, faceIndex \div 2) = hit
               /\ hit \in RepaintedStickers
               /\ repaints(app.paintHistory) < MaxRepaints
               /\ OnClick(cubie, faceIndex)
    \/ UndoPaint

SpecPaintApp == Init /\ [][NextPaintApp]_vars

\* The play controls with their handlers interleaved. renderer.animateMove
\* runs one animation at a time and queues the rest, so the awaits end in the
\* order in which the handlers reached them: handlers is that queue. A click
\* may come at any time, before or after the end of an animation. moves keeps
\* the moves that executeMove and redo have applied to the cube and that no
\* undo has taken back, the last one last.
PlayedMoves == {"U", "R'", "D2"}

StartHandler(op, move, c, this, applied) ==
    /\ length(cube.moveHistory) < MaxHandlers
    /\ cube' = c
    /\ controls' = this
    /\ moves' = applied
    /\ handlers' = Append(handlers, [op |-> op, move |-> move])
    /\ call' = [op |-> op, arg |-> move, before |-> moves]
    /\ ret' = Return(Undefined)
    /\ UNCHANGED <<solver, optimized, paint, newCube, renderer, cc, kociemba, app>>

StartExecuteMove(move) ==
    StartHandler("executeMove", move, executeMoveToAwait(cube, move), controls,
                 push(moves, move))

StartUndo ==
    /\ length(controls.userMoveHistory) > 0
    /\ \E result \in {undoToAwait(cube, controls)} :
           StartHandler("undo", result.lastMove, result.cube, result.this,
                        IF length(moves) = 0 THEN moves ELSE pop(moves))

StartRedo ==
    /\ length(controls.redoStack) > 0
    /\ \E result \in {redoToAwait(cube, controls)} :
           StartHandler("redo", result.move, result.cube, result.this,
                        push(moves, result.move))

AnimationEnds ==
    /\ handlers # <<>>
    /\ controls' = afterAwait(controls, Head(handlers))
    /\ handlers' = Tail(handlers)
    /\ call' = [op |-> "animationEnds", arg |-> Head(handlers).move, before |-> moves]
    /\ UNCHANGED <<cube, solver, ret, moves, optimized, paint, newCube, renderer, cc, kociemba, app>>

NextAsync ==
    \/ \E move \in PlayedMoves : StartExecuteMove(move)
    \/ StartUndo
    \/ StartRedo
    \/ AnimationEnds

SpecAsync == Init /\ [][NextAsync]_vars

\* C11: solve leaves the caller's paintState object as it found it: the six
\* face arrays hold the same symbols in the same order after the call as
\* before, whether solve returns a result or catches an exception.
SolveLeavesPaintState ==
    call.op = "solve" =>
        /\ DOMAIN paint = DOMAIN call.arg
        /\ paint = call.arg

\* solve has caught an exception on a painted state and has left the state alone
CaughtAndLeftAlone ==
    /\ call.op = "solve"
    /\ "B" \notin DOMAIN call.arg
    /\ ~ret.value.success
    /\ paint = call.arg

\* C12: the solved cube with two whole edge pieces exchanged is rejected by
\* solve with success = false and the parity-mismatch diagnostic.
SwappedEdgesAreAParityMismatch ==
    (call.op = "solve" /\ DOMAIN call.arg = DOMAIN reset.state
            /\ call.arg = SwapEdges(reset.state)) =>
        /\ ~ret.throws
        /\ ~ret.value.success
        /\ ret.value.error =
               "Unsolvable State: Parity mismatch (likely 2 pieces swapped). Impossible to solve."

\* C13: a state that breaks one orientation invariant gets that invariant's
\* diagnostic and no other: the solved cube with one edge flipped in place gets
\* the flipped-edge error, and with one corner twisted in place the
\* twisted-corner error.
OneOrientationFaultOneDiagnostic ==
    (call.op = "solve" /\ DOMAIN call.arg = DOMAIN reset.state) =>
        /\ call.arg = FlipEdge(reset.state) =>
               /\ ~ret.throws
               /\ ~ret.value.success
               /\ ret.value.error =
                      "Unsolvable State: One or more edges are flipped physically."
        /\ call.arg = TwistCorner(reset.state) =>
               /\ ~ret.throws
               /\ ~ret.value.success
               /\ ret.value.error =
                      "Unsolvable State: One or more corners are twisted physically."

\* str.includes(sub)
contains(str, sub) ==
    \E i \in 1 .. (Len(str) - Len(sub) + 1) : SubSeq(str, i, i + Len(sub) - 1) = sub

\* C14: a state that breaks several invariant categories at once gets a
\* diagnostic for every one of them: the solved cube with a corner twisted and
\* an edge flipped gets the twisted-corner and the flipped-edge diagnostics, and
\* the solved cube with the U center painted in the D color gets the
\* duplicate-center diagnostic and a color-count diagnostic.
EveryViolatedCategoryIsReported ==
    (call.op = "solve" /\ DOMAIN call.arg = DOMAIN reset.state) =>
        /\ call.arg = TwistAndFlip(reset.state) =>
               /\ ~ret.throws
               /\ ~ret.value.success
               /\ contains(ret.value.error, "corners are twisted")
               /\ contains(ret.value.error, "edges are flipped")
        /\ call.arg = Repaint(reset.state, "U", 4, reset.state.D[4]) =>
               /\ ~ret.throws
               /\ ~ret.value.success
               /\ contains(ret.value.error, "Duplicate center color")
               /\ \/ contains(ret.value.error, "Too many")
                  \/ contains(ret.value.error, "Not enough")

\* the validation stage a diagnostic belongs to: 1 center uniqueness, 2 color
\* counts, 3 piece well-formedness, 4 piece uniqueness, 5 orientation and
\* parity, and 0 for any other message
stageOf(error) ==
    IF contains(error, "Centers must be unique") \/ contains(error, "unique center colors")
    THEN 1
    ELSE IF contains(error, "does not match any center")
            \/ contains(error, "Too many") \/ contains(error, "Not enough")
    THEN 2
    ELSE IF contains(error, "duplicate corner pieces")
            \/ contains(error, "duplicate edge pieces")
    THEN 4
    ELSE IF contains(error, "orner piece at") \/ contains(error, "dge piece at")
    THEN 3
    ELSE IF contains(error, "Unsolvable State") THEN 5
    ELSE 0

\* C15: validation runs its stages in the order center uniqueness, color
\* counts, piece well-formedness, piece uniqueness, orientation and parity, and
\* reports a state with the diagnostic of the first stage it fails: the solved
\* cube with a duplicate center (which also has wrong counts) gets a stage 1
\* diagnostic, with one sticker repainted (which also makes an impossible
\* corner) a stage 2 diagnostic, with a corner sticker and an edge sticker
\* exchanged a stage 3 diagnostic, and with one corner twisted in place, which
\* passes stages 1 to 4, a stage 5 diagnostic.
StagesReportInOrder ==
    (call.op = "solve" /\ DOMAIN call.arg = DOMAIN reset.state /\ ~ret.throws
            /\ ~ret.value.success) =>
        /\ call.arg = Repaint(reset.state, "U", 4, reset.state.D[4]) =>
               stageOf(ret.value.error) = 1
        /\ call.arg = Repaint(reset.state, "U", 8, reset.state.D[4]) =>
               stageOf(ret.value.error) = 2
        /\ call.arg = SwapCornerAndEdgeSticker(reset.state) =>
               stageOf(ret.value.error) = 3
        /\ call.arg = TwistCorner(reset.state) =>
               stageOf(ret.value.error) = 5

\* a painted state with six faces of nine stickers, six distinct centers and
\* no sticker of another color than the centers'
sixCentersAllColorsCentered(p) ==
    /\ DOMAIN p = {faceOrder[k] : k \in DOMAIN faceOrder}
    /\ \A face \in DOMAIN p : DOMAIN p[face] = 0 .. 8
    /\ \A f, g \in DOMAIN p : p[f][4] = p[g][4] => f = g
    /\ \A face \in DOMAIN p : \A i \in 0 .. 8 : \E g \in DOMAIN p : p[face][i] = p[g][4]

\* the face whose center bears the color
centerFaceOf(p, color) == CHOOSE face \in DOMAIN p : p[face][4] = color

\* C16: for a state p with six distinct centers whose stickers all use center
\* colors, toFaceletString returns 54 symbols, the sticker i of the k-th face
\* of U, R, F, D, L, B at place 9k + i, each the letter of the face whose
\* center bears the sticker's color, and createState of that string is p with
\* every color replaced by that letter.
SerialisationIsExact ==
    (call.op = "solve" /\ sixCentersAllColorsCentered(call.arg)) =>
        LET p == call.arg
            facelets == toFaceletString(p, mapColorsToFaces(p))
        IN  /\ ~facelets.throws
            /\ Len(facelets.value) = 54
            /\ \A k \in 0 .. 5 : \A i \in 0 .. 8 :
                   SubSeq(facelets.value, 9 * k + i + 1, 9 * k + i + 1)
                       = centerFaceOf(p, p[<<"U", "R", "F", "D", "L", "B">>[k + 1]][i])
            /\ createState(facelets.value)
                   = [face \in DOMAIN p |-> [i \in 0 .. 8 |-> centerFaceOf(p, p[face][i])]]

\* solve has serialised a turned cube and gone on to read its pieces
SerialisedATurnedCube ==
    /\ call.op = "solve"
    /\ sixCentersAllColorsCentered(call.arg)
    /\ ~isSolved(call.arg)
    /\ ~ret.throws
    /\ stageOf(ret.value.error) = 3
    /\ createState(toFaceletString(call.arg, mapColorsToFaces(call.arg)).value).R[0] = "U"

\* C17: scramble(n) applies exactly n moves, each one of the 18 move tokens and
\* no two in a row on the same face, appends exactly these n moves to
\* moveHistory and returns them in their order; the stickers it leaves are the
\* stickers before the call with the returned sequence applied.
ScrambleAppliesWhatItReturns ==
    call.op = "scramble" =>
        LET returned == split(ret.value)
            n == call.arg.length
        IN  /\ length(returned) = n
            /\ \A i \in DOMAIN returned : returned[i] \in Moves
            /\ \A i \in DOMAIN returned :
                   i + 1 \in DOMAIN returned =>
                       charAt(returned[i], 0) # charAt(returned[i + 1], 0)
            /\ length(cube.moveHistory) = length(call.before.moveHistory) + n
            /\ \A i \in DOMAIN cube.moveHistory :
                   cube.moveHistory[i] =
                       IF i < length(call.before.moveHistory)
                       THEN call.before.moveHistory[i]
                       ELSE returned[i - length(call.before.moveHistory)]
            /\ cube.state = applyMoves(call.before, ret.value, FALSE).state

\* scramble has redrawn a face and returned two moves on a cube already turned
ScrambledATurnedCube ==
    /\ call.op = "scramble"
    /\ call.arg.length = 2
    /\ length(call.arg.draws.face) = 3
    /\ length(call.before.moveHistory) = 1
    /\ ret.value = "F2 U'"
    /\ cube.state # call.before.state

\* C18: on a cube that applyMove calls have made from the solved cube, undo()
\* takes the most recent move off moveHistory, adds nothing to it, and leaves
\* the 54 stickers as they were before that move was applied; on an empty
\* history undo() returns null and changes neither stickers nor history.
UndoRestoresTheStickers ==
    call.op = "undo" =>
        IF length(call.before.moveHistory) = 0
        THEN ret.value = Null /\ cube = call.before
        ELSE call.before.state = replay(reset, call.before.moveHistory) =>
                 /\ ret.value = call.before.moveHistory[length(call.before.moveHistory) - 1]
                 /\ cube.moveHistory = pop(call.before.moveHistory)
                 /\ cube.state = replay(reset, pop(call.before.moveHistory))

\* C19: clone() returns a cube with the stickers and the move history of the
\* original, and from then on an applyMove, undo, reset or scramble on one of
\* the two leaves the stickers and the history of the other as they were.
CloneIsAnIndependentCopy ==
    /\ [](call.op = "clone" =>
              /\ newCube.made
              /\ newCube.state = cube.state
              /\ newCube.moveHistory = cube.moveHistory)
    /\ [][newCube.made =>
              /\ call'.op \in {"applyMove", "undo", "reset", "scramble"} =>
                     /\ newCube'.state = newCube.state
                     /\ newCube'.moveHistory = newCube.moveHistory
              /\ call'.op \in {"newCube.applyMove", "newCube.undo", "newCube.reset",
                               "newCube.scramble"} =>
                     cube' = cube]_vars

\* the clone of a turned cube has been turned itself, the original left behind
CloneTurnedAlone ==
    /\ newCube.made
    /\ call.op = "newCube.undo"
    /\ length(cube.moveHistory) = 1
    /\ length(newCube.moveHistory) = 0
    /\ newCube.state # cube.state

\* the corner slots, the stickers of each named clockwise from its U or D sticker
cornerSlots ==
    {<<<<"U", 8>>, <<"R", 0>>, <<"F", 2>>>>, <<<<"U", 6>>, <<"F", 0>>, <<"L", 2>>>>,
     <<<<"U", 0>>, <<"L", 0>>, <<"B", 2>>>>, <<<<"U", 2>>, <<"B", 0>>, <<"R", 2>>>>,
     <<<<"D", 2>>, <<"F", 8>>, <<"R", 6>>>>, <<<<"D", 0>>, <<"L", 8>>, <<"F", 6>>>>,
     <<<<"D", 6>>, <<"B", 8>>, <<"L", 6>>>>, <<<<"D", 8>>, <<"R", 8>>, <<"B", 6>>>>}

\* the places of a slot that show the color of the U center or of the D center
upOrDownPlaces(p, slot) ==
    {k \in 1 .. 3 : p[slot[k][1]][slot[k][2]] \in {p.U[4], p.D[4]}}

\* the twists of the corners of p, added up: a corner counts 0, 1 or 2 by the
\* place of its U or D sticker
RECURSIVE twistSum(_, _)
twistSum(p, slots) ==
    IF slots = {} THEN 0
    ELSE LET slot == CHOOSE s \in slots : TRUE
         IN  (CHOOSE k \in upOrDownPlaces(p, slot) : TRUE) - 1
                 + twistSum(p, slots \ {slot})

fullyPainted(paintState) == unpainted(paintState) = {}

\* C20: every fully painted state reached from the blank cube through paint
\* actions that validatePaint accepts is a cube that face turns can make from
\* the solved cube. Such a cube has six different centers, nine stickers of
\* each color, one sticker of the U or D color on each corner, and corner
\* twists that add up to a multiple of 3.
PaintedCubesAreRealizable ==
    (call.op = "handlePaint" /\ fullyPainted(renderer.paintState)) =>
        LET p == renderer.paintState
        IN  /\ \A f, g \in DOMAIN p : p[f][4] = p[g][4] => f = g
            /\ \A color \in PaintColors : getColorCounts(p, color) = 9
            /\ \A slot \in cornerSlots : Cardinality(upOrDownPlaces(p, slot)) = 1
            /\ twistSum(p, cornerSlots) % 3 = 0

\* C21: in the play controls, undo() and then redo(), with no handler between
\* the two, leave the 54 stickers and userMoveHistory as they were before the
\* undo, whichever of the 18 moves was the last one.
UndoThenRedoRestores ==
    (/\ call.op = "Controls.redo"
     /\ call.earlier.op = "Controls.undo"
     /\ length(call.earlier.before.controls.userMoveHistory) > 0) =>
        /\ cube.state = call.earlier.before.cube.state
        /\ controls.userMoveHistory = call.earlier.before.controls.userMoveHistory

\* the solver's internal state for the stickers p of a cube: every color
\* replaced by the letter of the face whose center bears it
solverStateOf(p) == createState(toFaceletString(p, mapColorsToFaces(p)).value)

\* C22: the solver's move model agrees with the cube's: for every move token
\* and every sticker state, Solver.applyMove on the relabelled state gives the
\* relabelled state that CubeState.applyMove gives.
SolverMovesAgreeWithCubeMoves ==
    call.op = "applyMove" =>
        solverApplyMove(solverStateOf(call.before.state), call.arg)
            = solverStateOf(cube.state)

\* how often the face symbol occurs in the solver's state
symbolCount(st, symbol) ==
    Cardinality({<<face, i>> \in (DOMAIN st) \X (0 .. 8) : st[face][i] = symbol})

\* C23: rotateFace permutes the 54 facelets of the solver's state: after the
\* doMoves calls of a solveCube run each of the six face symbols still occurs 9
\* times, and every center is the one createState put there.
RotateFaceKeepsTheFacelets ==
    call.op = "solveLayers" =>
        /\ \A symbol \in DOMAIN solver.state : symbolCount(solver.state, symbol) = 9
        /\ \A face \in DOMAIN solver.state :
               solver.state[face][4] = solverStateOf(call.arg)[face][4]

\* C24: in every state reached from reset() by applyMove, undo and scramble
\* the cube holds 54 stickers, 9 of each of the six colors (isValid() is
\* true), and the center of each face shows the home color of the face.
CubeKeepsItsStickers ==
    /\ \A face \in DOMAIN cube.state : DOMAIN cube.state[face] = 0 .. 8
    /\ DOMAIN cube.state = DOMAIN reset.state
    /\ isValid(cube.state)
    /\ \A face \in DOMAIN cube.state : cube.state[face][4] = reset.state[face][4]

\* an undo has left stickers that the remaining history does not produce, and
\* a scramble has then turned that cube further
UndoneThenScrambled ==
    /\ call.op = "scramble"
    /\ call.arg.length = 2
    /\ call.before.state # replay(reset, call.before.moveHistory)
    /\ length(cube.moveHistory) = length(call.before.moveHistory) + 2

\* C25: every state that applyMove calls reach from the solved cube is
\* reported solvable by isSolvable(): the centers show their home colors and
\* each edge and corner slot read by getEdges() and getCorners() shows the
\* color set of a real piece.
TurnedCubesAreSolvable == isSolvable(cube.state)

\* the most moves each phase can add: the passes of its loops times the
\* longest move list one pass runs
phaseBudgets ==
    <<4 * 20 * 5, 4 * 30 * 8, 4 * 20 * 9, 10 * 10, 20 * 11, 10 * 11 + 15 * 11 + 4>>

\* C26: solveCube terminates on every string of 54 face letters, strings no
\* cube shows included: no phase throws, each loop ends on its goal or on its
\* budget of passes, and the raw move list is a finite list of moves.
SolveCubeEndsWithinItsBudgets ==
    call.op = "solveCube" =>
        /\ ~ret.throws
        /\ DOMAIN ret.value.solution = 0 .. (length(ret.value.solution) - 1)
        /\ \A i \in DOMAIN ret.value.solution : ret.value.solution[i] \in Moves
        /\ \A k \in DOMAIN ret.value.phases :
               length(ret.value.phases[k].moves) <= phaseBudgets[k + 1]

\* solveCube has run a loop to the end of its budget on a string no cube shows
BudgetUsedUp ==
    /\ call.op = "solveCube"
    /\ call.arg = sameSymbol("U", 54)
    /\ \E k \in DOMAIN ret.value.phases :
           length(ret.value.phases[k].moves) = phaseBudgets[k + 1]

phaseNames ==
    Arr(<<"White Cross", "First Layer", "Second Layer",
          "Yellow Cross", "Yellow Face", "Final Layer">>)

\* the moves of the phases before phase k, one list after the other
RECURSIVE movesBefore(_, _)
movesBefore(phases, k) ==
    IF k = 0 THEN Arr(<<>>)
    ELSE LET earlier == movesBefore(phases, k - 1)
         IN  [i \in 0 .. (length(earlier) + length(phases[k - 1].moves) - 1) |->
                 IF i < length(earlier) THEN earlier[i]
                 ELSE phases[k - 1].moves[i - length(earlier)]] @@ <<>>

\* the facelets phase k of solveCube(facelets) starts on
stateOnEntry(facelets, phases, k) ==
    doMovesFrom([state |-> createState(facelets), solution |-> Arr(<<>>), phases |-> Arr(<<>>)],
                movesBefore(phases, k), 0, length(movesBefore(phases, k))).state

\* what the loops of phase k test before they turn anything
goalHolds(st, k) ==
    CASE k = 0 -> /\ \A i \in {1, 3, 5, 7} : st.U[i] = "U"
                  /\ \A side \in {"F", "R", "B", "L"} : st[side][1] = side
      [] k = 1 -> /\ \A i \in {0, 2, 6, 8} : st.U[i] = "U"
                  /\ \A side \in {"F", "R", "B", "L"} : st[side][0] = side /\ st[side][2] = side
      [] k = 2 -> \A side \in {"F", "R", "B", "L"} : st[side][3] = side /\ st[side][5] = side
      [] k = 3 -> getYellowCrossPattern(st) = "cross"
      [] k = 4 -> countYellowCorners(st) = 4
      [] k = 5 -> cornersPositioned(st) /\ edgesSolved(st)

\* C27: solveCube returns exactly six phase records, named White Cross, First
\* Layer, Second Layer, Yellow Cross, Yellow Face, Final Layer in that order;
\* the phases' move lists, one after the other, are the raw solution; a phase
\* whose goal holds when it starts records an empty list.
SixPhasesMakeTheSolution ==
    call.op = "solveCube" =>
        /\ length(ret.value.phases) = 6
        /\ \A k \in 0 .. 5 : ret.value.phases[k].name = phaseNames[k]
        /\ movesBefore(ret.value.phases, 6) = ret.value.solution
        /\ \A k \in 0 .. 5 :
               goalHolds(stateOnEntry(call.arg, ret.value.phases, k), k)
                   => length(ret.value.phases[k].moves) = 0

\* a phase has found its goal reached after earlier phases have turned faces,
\* and a later phase has turned faces again
GoalReachedBetweenTurns ==
    /\ call.op = "solveCube"
    /\ \E j, k, l \in 0 .. 5 :
           /\ j < k /\ k < l
           /\ length(ret.value.phases[j].moves) > 0
           /\ goalHolds(stateOnEntry(call.arg, ret.value.phases, k), k)
           /\ length(ret.value.phases[l].moves) > 0

cornersOf(st) ==
    cornerLoop(toFaceletString(st, mapColorsToFaces(st)).value, 0, Arr(<<>>), Arr(<<>>))

\* C28: faceletsToCubies gives the solved facelet string the corner positions
\* 0, 1, .., 7 with orientation 0 each, and in every state the cube reaches
\* each of the 8 corner slots, DRF, DFL, DLB and DBR included, matches a
\* canonical corner with an orientation of 0, 1 or 2.
EveryCornerSlotIsIdentified ==
    /\ cornersOf(cube.state).error = Undefined
    /\ length(cornersOf(cube.state).cornerPositions) = 8
    /\ \A i \in 0 .. 7 :
           /\ cornersOf(cube.state).cornerPositions[i] \in 0 .. 7
           /\ cornersOf(cube.state).cornerOrientations[i] \in 0 .. 2
    /\ isSolved(cube.state) =>
           \A i \in 0 .. 7 :
               /\ cornersOf(cube.state).cornerPositions[i] = i
               /\ cornersOf(cube.state).cornerOrientations[i] = 0

\* the colors faceletsToCubies reads in edge slot i
edgeColors(facelets, i) == [j \in 0 .. 1 |-> at(facelets, edges[i].facelets[j])]

\* the edge loop of faceletsToCubies with each slot looked up in the table of
\* the 12 solved edges
RECURSIVE edgeTableLoop(_, _, _, _)
edgeTableLoop(facelets, i, edgePositions, edgeOrientations) ==
    IF i >= 12
    THEN Return([error |-> Undefined, edgePositions |-> edgePositions,
                 edgeOrientations |-> edgeOrientations])
    ELSE IF edgeColors(facelets, i)[0] = edgeColors(facelets, i)[1]
    THEN Return([error |-> "Edge piece at " \o getEdgeName(i) \o " has duplicate colors."])
    ELSE IF findEdgeShadowed(edgeColors(facelets, i)).index = -1
    THEN Return([error |-> "Impossible edge piece at " \o getEdgeName(i)
                               \o " (Colors do not form a valid edge)."])
    ELSE edgeTableLoop(facelets, i + 1,
                       push(edgePositions, findEdgeShadowed(edgeColors(facelets, i)).index),
                       push(edgeOrientations,
                            findEdgeShadowed(edgeColors(facelets, i)).orientation))

edgesOf(this, st) ==
    edgeLoop(this, toFaceletString(st, mapColorsToFaces(st)).value, 0, Arr(<<>>), Arr(<<>>))

\* C29: edge identification compares the two facelets of each slot with the
\* table of the 12 solved edges: entry i in the table's order gives index i
\* with orientation 0, in the swapped order orientation 1, no entry gives -1;
\* the result depends on the facelet string alone, not on the state an
\* earlier solve left in the solver.
EdgesAreReadFromTheString ==
    /\ ~edgesOf(solver, cube.state).throws
    /\ edgesOf(solver, cube.state).value
           = edgeTableLoop(toFaceletString(cube.state, mapColorsToFaces(cube.state)).value,
                           0, Arr(<<>>), Arr(<<>>)).value

\* the pairs of places a permutation holds in the wrong order
inversions(p) == {<<i, j>> \in (DOMAIN p) \X (DOMAIN p) : i < j /\ p[i] > p[j]}

\* C30: for every permutation p of 0 .. n - 1 calculateParity(p) terminates,
\* returns 0 when p is even and 1 when p is odd, and leaves p as it was.
ParityOfAPermutation ==
    call.op = "calculateParity" =>
        /\ ~ret.throws
        /\ ret.value = Cardinality(inversions(call.arg)) % 2
        /\ moves = call.arg

\* calculateParity has run on an odd permutation of 0 .. 7 none of whose
\* places holds its own number
CalculatedAnOddParity ==
    /\ call.op = "calculateParity"
    /\ length(call.arg) = 8
    /\ \A i \in DOMAIN call.arg : call.arg[i] # i
    /\ ret.value = 1

\* the quarter turns a move name stands for
quarterTurns(move) == IF includes(move, "2") THEN 2 ELSE IF includes(move, "'") THEN 3 ELSE 1

RECURSIVE quarterTurnsFrom(_, _)
quarterTurnsFrom(moveList, i) ==
    IF i >= length(moveList) THEN 0
    ELSE quarterTurns(moveList[i]) + quarterTurnsFrom(moveList, i + 1)

\* C31: each basic move X of the cubie engine has order 4 under multiply: a
\* new cubie multiplied by move cubies of one face that add up to four quarter
\* turns (X then X', X2 then X2, X' then X) is the solved cubie again, so the
\* table entries X2 and X' are the half turn and the inverse of X.
BasicMovesHaveOrderFour ==
    (/\ call.op = "multiply"
     /\ \A i \in DOMAIN moves : at(moves[i], 0) = at(moves[0], 0)
     /\ quarterTurnsFrom(moves, 0) % 4 = 0) => cc = newCubieCube

\* C32: the solved cubie is the phase-1 goal: its twist, flip and slice
\* coordinates are 0, and phase1Search on it ends in its first round, at
\* depth 0, having found the goal with an empty solutionStack.
SolvedCubieIsThePhase1Goal ==
    call.op = "phase1Search" =>
        /\ getTwist(cc) = 0
        /\ getFlip(cc) = 0
        /\ getSlice(cc) = 0
        /\ kociemba.depth = 0
        /\ kociemba.calls = <<>> =>
               kociemba.found /\ kociemba.solutionStack = Arr(<<>>)

\* C33: the slice coordinate round-trips: for every s in 0 .. 494 setSlice(s)
\* leaves ep a permutation of 0 .. 11 with exactly four slots holding slice
\* edges (8 .. 11), and getSlice() of that cubie returns s.
SliceCoordinateRoundTrips ==
    call.op = "setSlice" =>
        /\ {cc.ep[i] : i \in 0 .. 11} = 0 .. 11
        /\ Cardinality({i \in 0 .. 11 : cc.ep[i] \in 8 .. 11}) = 4
        /\ getSlice(cc) = call.arg

\* the face of a move name
faceOf(move) == at(move, 0)

\* C34: in the move sequence the phase-1 search has on its stack, no move
\* follows a move of the same face, and of two opposite faces only U before D,
\* F before B and R before L occur: D is never followed by U, B never by F,
\* L never by R.
SearchKeepsTheCanonicalOrder ==
    \A i \in DOMAIN kociemba.solutionStack :
        i > 0 =>
            /\ faceOf(kociemba.solutionStack[i]) # faceOf(kociemba.solutionStack[i - 1])
            /\ <<faceOf(kociemba.solutionStack[i - 1]), faceOf(kociemba.solutionStack[i])>>
                   \notin {<<"D", "U">>, <<"B", "F">>, <<"L", "R">>}

\* the stickers a cubie shows, as pairs of face and index
stickersOf(cubie) ==
    {<<v.face, getFaceAndIndex(cubie, v.matIdx).stickerIndex>> : v \in visibleFaces(cubie)}

\* C35: whatever was clicked since the cube was blanked, the paint state keeps
\* the three paint rules: no color of the palette is on more than 9 stickers,
\* no two centers show the same color of the palette, and no cubie shows the
\* same color of the palette on two of its stickers.
PaintStateKeepsThePaintRules ==
    /\ \A color \in PaintColors : getColorCounts(renderer.paintState, color) <= 9
    /\ \A f1, f2 \in DOMAIN renderer.paintState :
           (f1 # f2 /\ renderer.paintState[f1][4] = renderer.paintState[f2][4])
               => renderer.paintState[f1][4] \notin PaintColors
    /\ \A cubie \in Cubies : \A s1, s2 \in stickersOf(cubie) :
           (s1 # s2 /\ renderer.paintState[s1[1]][s1[2]] = renderer.paintState[s2[1]][s2[2]])
               => renderer.paintState[s1[1]][s1[2]] \notin PaintColors

\* a painted sticker has just been given another color while some color is
\* on 9 stickers
RepaintedWithAFullColor ==
    /\ call.op = "onClick"
    /\ ret.value[3] # Null
    /\ call.before.paintState[ret.value[1]][ret.value[2]] \notin {"U", ret.value[3]}
    /\ \E color \in PaintColors : getColorCounts(renderer.paintState, color) = 9

\* the renderer that the click of call.arg found
rendererBefore ==
    [paintState |-> call.before.paintState, selectedColor |-> call.before.selectedColor,
     paintMode |-> TRUE]

validationOfTheClick ==
    validatePaint(rendererBefore, call.arg.cubie, call.arg.faceIndex \div 2,
                  call.before.selectedColor)

\* C36: a click that validatePaint turns down leaves the paint state and the
\* paint history as they were, and the paint callback gets the color null and
\* the reason of validatePaint.
RejectedPaintChangesNothing ==
    (call.op = "onClick" /\ ~validationOfTheClick.valid) =>
        /\ renderer.paintState = call.before.paintState
        /\ app.paintHistory = call.before.paintHistory
        /\ ret.value[3] = Null
        /\ ret.value[4] = validationOfTheClick.reason

\* a click on a painted cube has just been turned down
PaintTurnedDown ==
    /\ call.op = "onClick"
    /\ ~validationOfTheClick.valid
    /\ length(app.paintHistory) > 0
    /\ ret.value[4] # Null

\* the entry that the undoPaint of call popped, and the color its sticker
\* showed before it was painted
lastPaintUndone == call.before.paintHistory[length(call.before.paintHistory) - 1]
shownBeforeLastPaint == call.before.shownBefore[length(call.before.shownBefore) - 1]

\* C37: undoPaint gives the sticker painted last the color it showed just
\* before that paint, also when the sticker had been painted before, and
\* leaves every other sticker as it was.
UndoPaintRestoresTheColor ==
    (call.op = "undoPaint" /\ length(call.before.paintHistory) > 0) =>
        renderer.paintState =
            [call.before.paintState EXCEPT
                 ![lastPaintUndone.face][lastPaintUndone.index] = shownBeforeLastPaint]

\* the cube that the moves of moveList make of the new cube
replayed(moveList) == forEachApplyMove(reset, moveList, 0, length(moveList), FALSE)

\* C38: however the handlers of the play controls interleave, an undo takes
\* back the move applied last to the cube and not yet taken back, and when no
\* handler is waiting the stickers are those that the moves of
\* userMoveHistory make.
HandlersKeepCubeAndHistoryTogether ==
    /\ call.op = "undo" =>
           /\ length(call.before) > 0
           /\ call.arg = call.before[length(call.before) - 1]
    /\ handlers = <<>> => cube.state = replayed(controls.userMoveHistory).state

\* The solution player. A result of this.solver.solve with success is shown;
\* Play and Step are clicked at any time until the solution is reported
\* complete, Play only while its button is enabled. A handler that waits is a
\* record of its name, its loop variables and what it waits for: the end of
\* its animation (renderer.animateMove runs the animations one at a time, in
\* the order of the calls) or the end of its delay. moves keeps the moves handed
\* to renderer.animateMove since the solution was shown.
phasesOf(raw, cut) ==
    [k \in 0 .. 5 |->
        [name |-> phaseNames[k],
         moves |-> IF k = 0 THEN [i \in 0 .. (cut - 1) |-> raw[i]] @@ <<>>
                   ELSE IF k = 1 THEN slice(raw, cut)
                   ELSE Arr(<<>>)]] @@ <<>>

solveResult(raw, cut) ==
    [success |-> TRUE, solution |-> optimizeMoves(raw), phases |-> phasesOf(raw, cut)]

ShownResults ==
    {solveResult(Arr(<<"R", "U">>), 1), solveResult(Arr(<<"U", "U", "R">>), 2)}

ShowSolution(result) ==
    /\ call.op = "new"
    /\ app' = showResult(app, result)
    /\ moves' = Arr(<<>>)
    /\ call' = [op |-> "solveCube", arg |-> result, before |-> Undefined]
    /\ UNCHANGED <<cube, solver, ret, optimized, paint, newCube, renderer, controls, cc, kociemba, handlers>>

StartPlay ==
    /\ call.op # "new"
    /\ app.solverStatus # "Solution complete!"
    /\ Len(handlers) < MaxHandlers
    /\ \A k \in 1 .. Len(handlers) : handlers[k].op # "playSolution"
    /\ length(app.currentSolution) # 0
    /\ renderer' = disablePaintMode(renderer)
    /\ \E place \in {playFrom(app, 0, 0)} :
           IF place.phaseIdx < length(app.currentPhases)
           THEN /\ moves' = push(moves, app.currentPhases[place.phaseIdx].moves[place.i])
                /\ handlers' = Append(handlers, [op |-> "playSolution", waits |-> "animation",
                                                 phaseIdx |-> place.phaseIdx, i |-> place.i])
                /\ UNCHANGED app
           ELSE /\ app' = playSolutionEnd(app)
                /\ UNCHANGED <<moves, handlers>>
    /\ call' = [op |-> "playSolution", arg |-> Undefined, before |-> Undefined]
    /\ UNCHANGED <<cube, solver, ret, optimized, paint, newCube, controls, cc, kociemba>>

StartStep ==
    /\ call.op # "new"
    /\ app.solverStatus # "Solution complete!"
    /\ Len(handlers) < MaxHandlers
    /\ IF app.solutionIndex >= length(app.currentSolution)
       THEN /\ app' = [app EXCEPT !.solverStatus = "Solution complete!"]
            /\ UNCHANGED <<moves, handlers, renderer>>
       ELSE /\ renderer' = disablePaintMode(renderer)
            /\ moves' = push(moves, app.currentSolution[app.solutionIndex])
            /\ handlers' = Append(handlers, [op |-> "stepSolution", waits |-> "animation",
                                             phaseIdx |-> 0, i |-> app.solutionIndex])
            /\ UNCHANGED app
    /\ call' = [op |-> "stepSolution", arg |-> Undefined, before |-> Undefined]
    /\ UNCHANGED <<cube, solver, ret, optimized, paint, newCube, controls, cc, kociemba>>

PlayerAnimationEnds ==
    /\ call.op # "new"
    /\ firstAnimating(handlers, 1) # 0
    /\ \E k \in {firstAnimating(handlers, 1)} :
           IF handlers[k].op = "stepSolution"
           THEN /\ app' = stepSolutionAfterAwait(app)
                /\ handlers' = without(handlers, k)
           ELSE /\ handlers' = [handlers EXCEPT ![k].waits = "delay"]
                /\ UNCHANGED app
    /\ call' = [op |-> "animationEnds", arg |-> Undefined, before |-> Undefined]
    /\ UNCHANGED <<cube, solver, ret, moves, optimized, paint, newCube, renderer, controls, cc, kociemba>>

DelayEnds(k) ==
    /\ call.op # "new"
    /\ handlers[k].waits = "delay"
    /\ \E place \in {playFrom(app, handlers[k].phaseIdx, handlers[k].i + 1)} :
           IF place.phaseIdx < length(app.currentPhases)
           THEN /\ moves' = push(moves, app.currentPhases[place.phaseIdx].moves[place.i])
                /\ handlers' = Append(without(handlers, k),
                                      [op |-> "playSolution", waits |-> "animation",
                                       phaseIdx |-> place.phaseIdx, i |-> place.i])
                /\ UNCHANGED app
           ELSE /\ app' = playSolutionEnd(app)
                /\ handlers' = without(handlers, k)
                /\ UNCHANGED moves
    /\ call' = [op |-> "delayEnds", arg |-> Undefined, before |-> Undefined]
    /\ UNCHANGED <<cube, solver, ret, optimized, paint, newCube, renderer, controls, cc, kociemba>>

NextPlayer ==
    \/ \E result \in ShownResults : ShowSolution(result)
    \/ StartPlay
    \/ StartStep
    \/ PlayerAnimationEnds
    \/ \E k \in 1 .. Len(handlers) : DelayEnds(k)

SpecPlayer == Init /\ [][NextPlayer]_vars

\* moveList[0 .. n - 1]
firstOf(moveList, n) == [i \in 0 .. (n - 1) |-> moveList[i]] @@ <<>>

\* C39: from the time a solution is shown until it is reported complete, the
\* moves that Step and Play hand to the renderer are the first moves of the
\* solution, in order and each once, and all of them when the solution is
\* reported complete.
PlayerHandsTheSolutionOnce ==
    call.op # "new" =>
        /\ length(moves) <= length(app.currentSolution)
        /\ moves = firstOf(app.currentSolution, length(moves))
        /\ app.solverStatus = "Solution complete!" => moves = app.currentSolution

\* The renderer drawing the cube state. getStickerIndex as the code computes
\* it; -1 for a face that is none of the six.
getStickerIndex(face, coord1, coord2) ==
    CASE face = "U" -> (1 - coord2) * 3 + (coord1 + 1)
      [] face = "D" -> (coord2 + 1) * 3 + (coord1 + 1)
      [] face = "F" -> (1 - coord2) * 3 + (coord1 + 1)
      [] face = "B" -> (1 - coord2) * 3 + (1 - coord1)
      [] face = "R" -> (1 - coord1) * 3 + (1 - coord2)
      [] face = "L" -> (1 - coord1) * 3 + (coord2 + 1)
      [] OTHER -> -1

\* the 26 cubies of buildCube, by their userData
OuterCubies ==
    {cubie \in [x : {-1, 0, 1}, y : {-1, 0, 1}, z : {-1, 0, 1}] :
        ~(cubie.x = 0 /\ cubie.y = 0 /\ cubie.z = 0)}

\* the index that syncWithState asks of getStickerIndex for material
\* materialIndex of a cubie
syncedIndex(cubie, materialIndex) ==
    CASE materialIndex = 0 -> getStickerIndex("R", cubie.y, cubie.z)
      [] materialIndex = 1 -> getStickerIndex("L", cubie.y, cubie.z)
      [] materialIndex = 2 -> getStickerIndex("U", cubie.x, cubie.z)
      [] materialIndex = 3 -> getStickerIndex("D", cubie.x, cubie.z)
      [] materialIndex = 4 -> getStickerIndex("F", cubie.x, cubie.y)
      [] materialIndex = 5 -> getStickerIndex("B", cubie.x, cubie.y)

\* syncWithState(cubeState): the renderer with the colors of its cubies'
\* materials, by cubie and material index; a material of a face that is not
\* external keeps the color 'X' that createCubie gave it. A color is kept as
\* its letter, this.colors being one to one.
syncWithState(this, cubeState) ==
    LET state == cubeState.state
    IN  [paintState |-> this.paintState, selectedColor |-> this.selectedColor,
         paintMode |-> this.paintMode,
         cubies |-> [cubie \in OuterCubies |->
                        [materialIndex \in 0 .. 5 |->
                            IF \E f \in visibleFaces(cubie) : f.matIdx = materialIndex
                            THEN LET face == (CHOOSE f \in visibleFaces(cubie) :
                                                 f.matIdx = materialIndex).face
                                     idx == syncedIndex(cubie, materialIndex)
                                 IN  IF idx # -1 THEN state[face][idx] ELSE "X"
                            ELSE "X"]]]

\* the faces and modifiers initialScramble draws from
scrambleFaces == <<"U", "D", "R", "L", "F", "B">>
scrambleModifiers == <<"", "'", "2">>

\* the scrambles of initialScramble: no face twice in a row. The code draws 15
\* to 20 moves; the lists here have up to MaxScramble moves, and each cube they
\* lead to is one that a list of 15 to 20 moves leads to too (followed by
\* turns of two opposite faces that cancel, as R L R' L').
InitialScrambles ==
    {moveList \in UNION {[0 .. (n - 1) -> {scrambleFaces[f] \o scrambleModifiers[m] :
                                              f \in 1 .. 6, m \in 1 .. 3}] :
                            n \in 1 .. MaxScramble} :
        \A i \in 1 .. (length(moveList) - 1) :
            charAt(moveList[i], 0) # charAt(moveList[i - 1], 0)}

\* initialScramble after its delay: the moves applied to the cube state one by
\* one, then the renderer synced with it
InitialScramble(moveList) ==
    /\ call.op = "new"
    /\ cube' = forEachApplyMove(cube, moveList, 0, length(moveList), TRUE)
    /\ renderer' = syncWithState(renderer, cube')
    /\ call' = [op |-> "initialScramble", arg |-> moveList, before |-> Undefined]
    /\ UNCHANGED <<solver, ret, moves, optimized, paint, newCube, controls, cc, kociemba, app, handlers>>

NextSync ==
    \E moveList \in InitialScrambles : InitialScramble(moveList)

SpecSync == Init /\ [][NextSync]_vars

\* C40: the two slot mappings of the renderer agree: for every external face
\* of each of the 26 outer cubies syncWithState reads the sticker index that
\* getFaceAndIndex gives for that face, so that after a sync each material
\* shows the facelet of the cube state that belongs to its slot.
SyncAndPaintUseTheSameSlots ==
    call.op = "initialScramble" =>
        \A cubie \in OuterCubies : \A f \in visibleFaces(cubie) :
            /\ syncedIndex(cubie, f.matIdx) = getFaceAndIndex(cubie, f.matIdx).stickerIndex
            /\ renderer.cubies[cubie][f.matIdx] =
                   cube.state[f.face][getFaceAndIndex(cubie, f.matIdx).stickerIndex]
====
